---- MODULE Spec2Model ----
(***************************************************************************)
(* GetCheck resume analyser: the ingestion and orchestration pipeline.     *)
(*                                                                         *)
(*   App (src/unnamed/part_000)        React state, startAnalysis, the     *)
(*                                     error classification, the retry     *)
(*                                     countdown effect, the error modal   *)
(*   geminiService (src/unnamed/part_001)  analyzeResume and the           *)
(*                                     model-fallback loop                 *)
(*   fileParser (src/services/fileParser.ts)  extractContentFromFile       *)
(*                                                                         *)
(* JavaScript strings are sequences of one-character strings, so that      *)
(* includes, startsWith, toLowerCase, slice and the regular expressions of *)
(* the code are computed, not assumed.  null is the empty sequence <<>>    *)
(* and a non-null value v is <<v>>.                                        *)
(***************************************************************************)
EXTENDS Integers, Sequences, FiniteSets, TLC

(***************************************************************************)
(* Bounds of the model.                                                    *)
(***************************************************************************)
\* Slots for pipeline runs that are in flight at the same time.
MaxInFlight == 2
\* Largest whole number of seconds a remote error message advises to wait.
MaxRetrySeconds == 2
\* Pages of the longest document readPdfFile is run on.
MaxPages == 3

(***************************************************************************)
(* JavaScript string primitives.                                           *)
(***************************************************************************)
Null == <<>>

Some(v) == <<v>>

UpperAlpha ==
    <<"A","B","C","D","E","F","G","H","I","J","K","L","M",
      "N","O","P","Q","R","S","T","U","V","W","X","Y","Z">>

LowerAlpha ==
    <<"a","b","c","d","e","f","g","h","i","j","k","l","m",
      "n","o","p","q","r","s","t","u","v","w","x","y","z">>

DigitChars == <<"0","1","2","3","4","5","6","7","8","9">>

LowerChar(c) ==
    IF \E i \in 1..26 : UpperAlpha[i] = c
    THEN LowerAlpha[CHOOSE i \in 1..26 : UpperAlpha[i] = c]
    ELSE c

\* String.prototype.toLowerCase
toLowerCase(s) == [i \in 1..Len(s) |-> LowerChar(s[i])]

\* String.prototype.includes
includes(s, sub) ==
    \E i \in 0..(Len(s) - Len(sub)) : SubSeq(s, i + 1, i + Len(sub)) = sub

\* String.prototype.startsWith
startsWith(s, p) == Len(s) >= Len(p) /\ SubSeq(s, 1, Len(p)) = p

endsWith(s, p) == Len(s) >= Len(p) /\ SubSeq(s, Len(s) - Len(p) + 1, Len(s)) = p

\* slice(0, n) with the end index taken as the last index.
slice0Short(s, n) == SubSeq(s, 1, IF Len(s) < n THEN Len(s) ELSE n - 1)

\* String.prototype.slice(0, n)
slice0(s, n) == SubSeq(s, 1, IF Len(s) < n THEN Len(s) ELSE n)

(***************************************************************************)
(* String literals of the program.                                         *)
(***************************************************************************)
\* startAnalysis: user-facing texts (part_000 lines 85-145)
MsgSelectFile ==
    <<"P","l","e","a","s","e"," ","s","e","l","e","c","t"," ","a"," ","f","i","l","e"," ","t",
      "o"," ","a","n","a","l","y","z","e",".">>
MsgTooShort ==
    <<"D","o","c","u","m","e","n","t"," ","i","s"," ","t","o","o"," ","s","h","o","r","t"," ",
      "t","o"," ","b","e"," ","a"," ","v","a","l","i","d"," ","r","e","s","u","m","e","."," ",
      "P","l","e","a","s","e"," ","u","p","l","o","a","d"," ","a"," ","c","o","m","p","l","e",
      "t","e"," ","r","e","s","u","m","e"," ","o","r"," ","C","V",".">>
MsgInvalidResume ==
    <<"T","h","e"," ","u","p","l","o","a","d","e","d"," ","d","o","c","u","m","e","n","t"," ",
      "d","o","e","s"," ","n","o","t"," ","a","p","p","e","a","r"," ","t","o"," ","b","e"," ",
      "a"," ","v","a","l","i","d"," ","r","e","s","u","m","e"," ","o","r"," ","C","V","."," ",
      "P","l","e","a","s","e"," ","u","p","l","o","a","d"," ","a"," ","p","r","o","f","e","s",
      "s","i","o","n","a","l"," ","r","e","s","u","m","e"," ","c","o","n","t","a","i","n","i",
      "n","g"," ","s","e","c","t","i","o","n","s"," ","l","i","k","e"," ","E","d","u","c","a",
      "t","i","o","n",","," ","S","k","i","l","l","s",","," ","E","x","p","e","r","i","e","n",
      "c","e",","," ","o","r"," ","P","r","o","j","e","c","t","s",".">>
MsgRateLimited ==
    <<"T","o","o"," ","m","a","n","y"," ","r","e","q","u","e","s","t","s","."," ","P","l","e",
      "a","s","e"," ","w","a","i","t"," ","a"," ","m","o","m","e","n","t"," ","a","n","d"," ",
      "t","r","y"," ","a","g","a","i","n",".">>
MsgUnavailable ==
    <<"T","h","e"," ","A","I"," ","s","e","r","v","i","c","e"," ","i","s"," ","c","u","r","r",
      "e","n","t","l","y"," ","e","x","p","e","r","i","e","n","c","i","n","g"," ","h","i","g",
      "h"," ","d","e","m","a","n","d","."," ","P","l","e","a","s","e"," ","t","r","y"," ","a",
      "g","a","i","n"," ","i","n"," ","a"," ","m","o","m","e","n","t",".">>
MsgAuth ==
    <<"A","u","t","h","e","n","t","i","c","a","t","i","o","n"," ","e","r","r","o","r","."," ",
      "P","l","e","a","s","e"," ","c","h","e","c","k"," ","t","h","e"," ","A","P","I"," ","c",
      "o","n","f","i","g","u","r","a","t","i","o","n",".">>
MsgNetwork ==
    <<"N","e","t","w","o","r","k"," ","e","r","r","o","r","."," ","P","l","e","a","s","e"," ",
      "c","h","e","c","k"," ","y","o","u","r"," ","c","o","n","n","e","c","t","i","o","n"," ",
      "a","n","d"," ","t","r","y"," ","a","g","a","i","n",".">>

\* startAnalysis (catch): the markers the classification looks for (part_000 lines 126-144)
KwRetryIn == <<"r","e","t","r","y"," ","i","n"," ">>
KwQuota == <<"q","u","o","t","a">>
Kw429 == <<"4","2","9">>
KwRateLimit == <<"r","a","t","e"," ","l","i","m","i","t">>
KwExceeded == <<"e","x","c","e","e","d","e","d">>
Kw503 == <<"5","0","3">>
KwUnavailable == <<"u","n","a","v","a","i","l","a","b","l","e">>
KwHighDemand == <<"h","i","g","h"," ","d","e","m","a","n","d">>
KwApiKeySpaced == <<"A","P","I"," ","K","e","y">>
KwApiKeySnake == <<"a","p","i","_","k","e","y">>
Kw401 == <<"4","0","1">>
KwNetwork == <<"n","e","t","w","o","r","k">>
KwFetch == <<"f","e","t","c","h">>
KwFailedToFetch == <<"f","a","i","l","e","d"," ","t","o"," ","f","e","t","c","h">>
InvalidResumeMarker == <<"I","N","V","A","L","I","D","_","R","E","S","U","M","E">>

\* fileParser.ts and geminiService (part_001): thrown messages
MsgUnsupportedPrefix ==
    <<"U","n","s","u","p","p","o","r","t","e","d"," ","f","i","l","e"," ","t","y","p","e",":",
      " ",".">>
MsgPdfNotLoaded ==
    <<"P","D","F"," ","l","i","b","r","a","r","y"," ","n","o","t"," ","l","o","a","d","e","d">>
MsgDocxNotLoaded ==
    <<"D","O","C","X"," ","l","i","b","r","a","r","y"," ","n","o","t"," ","l","o","a","d","e",
      "d">>
MsgFailedReadImage ==
    <<"F","a","i","l","e","d"," ","t","o"," ","r","e","a","d"," ","i","m","a","g","e"," ","f",
      "i","l","e">>
MsgApiKeyMissing ==
    <<"A","P","I"," ","K","e","y"," ","i","s"," ","m","i","s","s","i","n","g","."," ","P","l",
      "e","a","s","e"," ","s","e","t"," ","V","I","T","E","_","G","E","M","I","N","I","_","A",
      "P","I","_","K","E","Y",".">>
MsgEmptyResponse ==
    <<"E","m","p","t","y"," ","r","e","s","p","o","n","s","e"," ","f","r","o","m"," ","G","e",
      "m","i","n","i",".">>
MsgAllModelsFailed ==
    <<"A","l","l"," ","m","o","d","e","l","s"," ","f","a","i","l","e","d"," ","t","o"," ","g",
      "e","n","e","r","a","t","e"," ","c","o","n","t","e","n","t",".">>
MimeImagePrefix == <<"i","m","a","g","e","/">>
MimeJpeg == <<"i","m","a","g","e","/","j","p","e","g">>

\* JSON texts the unwrapping of a raw message recognises
JsonErrorMessageOpen ==
    <<"{","\"","e","r","r","o","r","\"",":","{","\"","m","e","s","s","a","g","e","\"",":","\"">>
JsonErrorMessageClose == <<"\"","}","}">>
JsonMessageOpen == <<"{","\"","m","e","s","s","a","g","e","\"",":","\"">>
JsonMessageClose == <<"\"","}">>
\* The same two wrappers around a number: no quotes around the value
JsonErrorNumberOpen == SubSeq(JsonErrorMessageOpen, 1, Len(JsonErrorMessageOpen) - 1)
JsonErrorNumberClose == Tail(JsonErrorMessageClose)
JsonNumberOpen == SubSeq(JsonMessageOpen, 1, Len(JsonMessageOpen) - 1)
JsonNumberClose == Tail(JsonMessageClose)
JsonEmptyObject == <<"{","}">>
\* An error reply with a code and both message fields
JsonBothOpen ==
    <<"{","\"","e","r","r","o","r","\"",":","{","\"","c","o","d","e","\"",":","4","2","9",",","\"","m","e","s","s","a","g","e","\"",":","\"">>
JsonBothMid == <<"\"","}",",","\"","m","e","s","s","a","g","e","\"",":","\"">>
JsonEmptyArray == <<"[","]">>

\* The message of handleDownloadSnapshot
MsgReportFailed ==
    <<"F","a","i","l","e","d"," ","t","o"," ","g","e","n","e","r","a","t","e"," ","r","e","p",
      "o","r","t","."," ","P","l","e","a","s","e"," ","t","r","y"," ","a","g","a","i","n",".">>

\* The message of the SyntaxError JSON.parse throws
MsgJsonSyntaxError ==
    <<"U","n","e","x","p","e","c","t","e","d"," ","e","n","d"," ","o","f"," ","J","S","O","N",
      " ","i","n","p","u","t">>
\* Files the user can pick: names and declared MIME types
NameCvTxt == <<"c","v",".","t","x","t">>
NameCvPdf == <<"c","v",".","p","d","f">>
NameCvDocx == <<"c","v",".","d","o","c","x">>
NameScanPng == <<"s","c","a","n",".","P","N","G">>
NameCvExe == <<"c","v",".","e","x","e">>
MimeTextPlain == <<"t","e","x","t","/","p","l","a","i","n">>
MimePdf == <<"a","p","p","l","i","c","a","t","i","o","n","/","p","d","f">>
\* FileReader.readAsDataURL results
DataUrlPng ==
    <<"d","a","t","a",":","i","m","a","g","e","/","p","n","g",";","b","a","s","e","6","4",",",
      "Q","U","J","D">>
DataUrlNoType == <<"d","a","t","a",":",";","b","a","s","e","6","4",",","Q","U","J","D">>
DataUrlOctet ==
    <<"d","a","t","a",":","a","p","p","l","i","c","a","t","i","o","n","/","o","c","t","e","t","-","s","t","r","e","a","m",";","b","a","s","e","6","4",",","Q","U","J","D">>
DataUrlBare == <<"d","a","t","a",":">>
\* Messages of the remote service and of the libraries
MsgQuotaRetryOpen ==
    <<"Q","u","o","t","a"," ","e","x","c","e","e","d","e","d","."," ","P","l","e","a","s","e",
      " ","r","e","t","r","y"," ","i","n"," ">>
MsgQuotaRetryClose == <<"s",".">>
Msg503 ==
    <<"5","0","3"," ","S","e","r","v","i","c","e"," ","U","n","a","v","a","i","l","a","b","l",
      "e">>
MsgInvalidPdf ==
    <<"I","n","v","a","l","i","d"," ","P","D","F"," ","s","t","r","u","c","t","u","r","e",".">>
JustificationGood == <<"G","o","o","d">>
JustificationWeak == <<"W","e","a","k">>
JustificationInvalidLong ==
    <<"I","N","V","A","L","I","D","_","R","E","S","U","M","E",":"," ","n","o","t"," ","a"," ",
      "r","e","s","u","m","e">>
(***************************************************************************)
(* Program constants.                                                      *)
(***************************************************************************)
\* startAnalysis: content.content.length < 200
MinResumeLength == 200
\* startAnalysis (catch): rawMsg.slice(0, 500)
MaxShownLength == 500

(***************************************************************************)
(* Errors.  A thrown value is a record; a FileReader error event is an     *)
(* object that is no Error and carries no message.  A message that is no   *)
(* string (a number) is kept as its digits, with isString FALSE.           *)
(***************************************************************************)
\* new Error(message)
Error(m) == [isError |-> TRUE, hasMessage |-> TRUE, isString |-> TRUE, message |-> m]

\* reader.onerror = (e) => reject(e): a ProgressEvent
ReaderErrorEvent ==
    [isError |-> FALSE, hasMessage |-> FALSE, isString |-> TRUE, message |-> <<>>]

\* A rejection value whose message property holds the number written digits.
NumberMessageError(digits) ==
    [isError |-> TRUE, hasMessage |-> TRUE, isString |-> FALSE, message |-> digits]

\* new Error(): the message is the empty string.
ErrorNoMessage == [isError |-> TRUE, hasMessage |-> FALSE, isString |-> TRUE, message |-> <<>>]

(***************************************************************************)
(* startAnalysis (catch): unwrapping, retry delay, classification.         *)
(***************************************************************************)
IsDigit(c) == \E i \in 1..10 : DigitChars[i] = c

DigitValue(c) == (CHOOSE i \in 1..10 : DigitChars[i] = c) - 1

\* Length of the longest prefix of s made of digits.
DigitRun(s) ==
    LET stops == {i \in 1..Len(s) : ~IsDigit(s[i])}
    IN  IF stops = {} THEN Len(s) ELSE (CHOOSE i \in stops : \A j \in stops : i <= j) - 1

\* Length of the longest prefix of s made of characters of the class [0-9.].
NumberRun(s) ==
    LET stops == {i \in 1..Len(s) : ~(IsDigit(s[i]) \/ s[i] = ".")}
    IN  IF stops = {} THEN Len(s) ELSE (CHOOSE i \in stops : \A j \in stops : i <= j) - 1

\* The number a string of decimal digits denotes.
DecimalValue(s) ==
    LET v[i \in 0..Len(s)] == IF i = 0 THEN 0 ELSE 10 * v[i - 1] + DigitValue(s[i])
    IN  v[Len(s)]

\* The delay rounded down.
CeilParseFloatFloor(t) ==
    LET nInt == DigitRun(t)
    IN  IF nInt = 0 THEN Null ELSE Some(DecimalValue(SubSeq(t, 1, nInt)))

\* Math.ceil(parseFloat(t)) for t matching [0-9.]+ : Null stands for NaN.
\* parseFloat reads digits, at most one point, digits, and ignores the rest.
CeilParseFloat(t) ==
    LET nInt    == DigitRun(t)
        afterI  == SubSeq(t, nInt + 1, Len(t))
        hasDot  == afterI # <<>> /\ Head(afterI) = "."
        fracAll == IF hasDot THEN Tail(afterI) ELSE <<>>
        nFrac   == DigitRun(fracAll)
        frac    == SubSeq(fracAll, 1, nFrac)
        fracPos == \E i \in 1..nFrac : frac[i] # "0"
    IN  IF nInt = 0 /\ nFrac = 0 THEN Null
        ELSE Some(DecimalValue(SubSeq(t, 1, nInt)) + (IF fracPos THEN 1 ELSE 0))

\* rawMsg.match(/retry in ([0-9.]+)s/i): the captured group of the leftmost
\* match, Null when there is none.
RetryMatch(rawMsg) ==
    LET k == Len(KwRetryIn)
        MatchesAt(i) ==
            /\ i + k - 1 <= Len(rawMsg)
            /\ toLowerCase(SubSeq(rawMsg, i, i + k - 1)) = KwRetryIn
            /\ LET rest == SubSeq(rawMsg, i + k, Len(rawMsg))
                   n    == NumberRun(rest)
               IN  /\ n >= 1
                   /\ n + 1 <= Len(rest)
                   /\ LowerChar(rest[n + 1]) = "s"
        hits == {i \in 1..Len(rawMsg) : MatchesAt(i)}
    IN  IF hits = {} THEN Null
        ELSE LET i    == CHOOSE j \in hits : \A h \in hits : j <= h
                 rest == SubSeq(rawMsg, i + k, Len(rawMsg))
             IN  Some(SubSeq(rest, 1, NumberRun(rest)))

\* A delay of 60 seconds invented when the message carries none.
RetrySecondsDefaulted(rawMsg) ==
    LET retryMatch == RetryMatch(rawMsg)
    IN  IF retryMatch # Null /\ retryMatch[1] # <<>>
        THEN CeilParseFloat(retryMatch[1])
        ELSE Some(60)

\* retrySeconds: 0 unless the message carries a delay; Null stands for NaN.
RetrySeconds(rawMsg) ==
    LET retryMatch == RetryMatch(rawMsg)
    IN  IF retryMatch # Null /\ retryMatch[1] # <<>>
        THEN CeilParseFloat(retryMatch[1])
        ELSE Some(0)

NoQuoteOrBackslash(s) == \A i \in 1..Len(s) : s[i] # "\"" /\ s[i] # "\\"

Between(s, open, close) == SubSeq(s, Len(open) + 1, Len(s) - Len(close))

Wrapped(s, open, close) ==
    /\ Len(s) >= Len(open) + Len(close)
    /\ startsWith(s, open)
    /\ endsWith(s, close)
    /\ NoQuoteOrBackslash(Between(s, open, close))

\* s is open, a JSON number written with digits only, close.
WrappedNumber(s, open, close) ==
    /\ Len(s) > Len(open) + Len(close)
    /\ startsWith(s, open)
    /\ endsWith(s, close)
    /\ DigitRun(Between(s, open, close)) = Len(Between(s, open, close))
    /\ (Len(Between(s, open, close)) > 1 => Between(s, open, close)[1] # "0")

\* What lies between JsonBothOpen and the closing of the object, cut at its
\* first quote: the texts of error.message and of message.
CutAtQuote(inner) ==
    LET quotes == {i \in 1..Len(inner) : inner[i] = "\""}
        cut    == IF quotes = {} THEN 0 ELSE CHOOSE i \in quotes : \A j \in quotes : i <= j
    IN  [ok     |-> cut > 0 /\ SubSeq(inner, cut, cut + Len(JsonBothMid) - 1) = JsonBothMid,
         first  |-> SubSeq(inner, 1, cut - 1),
         second |-> SubSeq(inner, cut + Len(JsonBothMid), Len(inner))]

\* JSON.parse of a text starting with JsonBothOpen.
ParsedBoth(s, fields) ==
    IF /\ Len(s) >= Len(JsonBothOpen) + Len(JsonBothMid) + Len(JsonMessageClose)
       /\ endsWith(s, JsonMessageClose)
       /\ fields.ok
       /\ NoQuoteOrBackslash(fields.second)
    THEN [ok |-> TRUE, errorMessage |-> Some(fields.first), message |-> Some(fields.second),
          isString |-> TRUE]
    ELSE [ok |-> FALSE, errorMessage |-> Null, message |-> Null, isString |-> TRUE]

\* JSON.parse on the texts the model feeds it: an object whose error.message
\* or message is a string or a number, the empty object, the empty array; any
\* other text of the input set is malformed and makes JSON.parse throw.
\* isString tells whether the field found is a string.
JSONparse(s) ==
    IF startsWith(s, JsonBothOpen)
    THEN ParsedBoth(s, CutAtQuote(Between(s, JsonBothOpen, JsonMessageClose)))
    ELSE IF Wrapped(s, JsonErrorMessageOpen, JsonErrorMessageClose)
    THEN [ok |-> TRUE, errorMessage |-> Some(Between(s, JsonErrorMessageOpen, JsonErrorMessageClose)),
          message |-> Null, isString |-> TRUE]
    ELSE IF Wrapped(s, JsonMessageOpen, JsonMessageClose)
    THEN [ok |-> TRUE, errorMessage |-> Null,
          message |-> Some(Between(s, JsonMessageOpen, JsonMessageClose)), isString |-> TRUE]
    ELSE IF WrappedNumber(s, JsonErrorNumberOpen, JsonErrorNumberClose)
    THEN [ok |-> TRUE, errorMessage |-> Some(Between(s, JsonErrorNumberOpen, JsonErrorNumberClose)),
          message |-> Null, isString |-> FALSE]
    ELSE IF WrappedNumber(s, JsonNumberOpen, JsonNumberClose)
    THEN [ok |-> TRUE, errorMessage |-> Null,
          message |-> Some(Between(s, JsonNumberOpen, JsonNumberClose)), isString |-> FALSE]
    ELSE IF s = JsonEmptyObject \/ s = JsonEmptyArray
    THEN [ok |-> TRUE, errorMessage |-> Null, message |-> Null, isString |-> TRUE]
    ELSE [ok |-> FALSE, errorMessage |-> Null, message |-> Null, isString |-> TRUE]

\* A JavaScript string option is truthy when it is neither null/undefined nor "".
Truthy(opt) == opt # Null /\ opt[1] # <<>>

\* Truthiness of a parsed field: a string is truthy unless empty, a number
\* unless 0.
TruthyField(opt, isString) ==
    IF isString THEN Truthy(opt) ELSE opt # Null /\ DecimalValue(opt[1]) # 0

\* A value held by rawMsg: a string, or a number kept as its digits.
StringValue(s) == [isString |-> TRUE, text |-> s]

\* rawMsg after the "Try parsing if it's a JSON string error" block.
\* parsed?.error?.message || parsed?.message || rawMsg
FirstTruthy(parsed, raw) ==
    IF ~parsed.ok THEN StringValue(raw)
    ELSE IF TruthyField(parsed.errorMessage, parsed.isString)
    THEN [isString |-> parsed.isString, text |-> parsed.errorMessage[1]]
    ELSE IF TruthyField(parsed.message, parsed.isString)
    THEN [isString |-> parsed.isString, text |-> parsed.message[1]]
    ELSE StringValue(raw)

\* The try block leaving rawMsg as it was.
UnwrapMessageKeepsRaw(raw) == StringValue(raw)

UnwrapMessage(raw) ==
    IF startsWith(raw, <<"{">>) \/ startsWith(raw, <<"[">>)
    THEN FirstTruthy(JSONparse(raw), raw)
    ELSE StringValue(raw)

IsRateLimited(rawMsg) ==
    LET lowerMsg == toLowerCase(rawMsg)
    IN  \/ includes(lowerMsg, KwQuota)
        \/ includes(lowerMsg, Kw429)
        \/ includes(lowerMsg, KwRateLimit)
        \/ includes(lowerMsg, KwExceeded)

IsServiceUnavailable(rawMsg) ==
    LET lowerMsg == toLowerCase(rawMsg)
    IN  \/ includes(rawMsg, Kw503)
        \/ includes(lowerMsg, KwUnavailable)
        \/ includes(lowerMsg, KwHighDemand)

IsAuthError(rawMsg) ==
    \/ includes(rawMsg, KwApiKeySpaced)
    \/ includes(rawMsg, KwApiKeySnake)
    \/ includes(rawMsg, Kw401)

IsNetworkError(rawMsg) ==
    LET lowerMsg == toLowerCase(rawMsg)
    IN  \/ includes(lowerMsg, KwNetwork)
        \/ includes(lowerMsg, KwFetch)
        \/ includes(lowerMsg, KwFailedToFetch)

\* The chain with its first two branches in the other order.
ClassifyUnavailableFirst(rawMsg) ==
    IF IsServiceUnavailable(rawMsg) THEN "ServiceUnavailable"
    ELSE IF IsRateLimited(rawMsg) THEN "RateLimited"
    ELSE IF IsAuthError(rawMsg) THEN "AuthError"
    ELSE IF IsNetworkError(rawMsg) THEN "NetworkError"
    ELSE "Unknown"

\* The if / else-if chain of the catch block.
Classify(rawMsg) ==
    IF IsRateLimited(rawMsg) THEN "RateLimited"
    ELSE IF IsServiceUnavailable(rawMsg) THEN "ServiceUnavailable"
    ELSE IF IsAuthError(rawMsg) THEN "AuthError"
    ELSE IF IsNetworkError(rawMsg) THEN "NetworkError"
    ELSE "Unknown"

UserMessage(kind, rawMsg) ==
    CASE kind = "RateLimited"        -> MsgRateLimited
      [] kind = "ServiceUnavailable" -> MsgUnavailable
      [] kind = "AuthError"          -> MsgAuth
      [] kind = "NetworkError"       -> MsgNetwork
      [] OTHER                       -> slice0(rawMsg, MaxShownLength)

\* The whole catch block of startAnalysis, as the values it hands to the
\* state setters: msg for setErrorMsg, arm for setRetryCountdown (Null when
\* the countdown is left alone).  threw: rawMsg holds a value that is no
\* string, so that rawMsg.match(...) raises a TypeError and the block ends
\* before any setter is called (rawMsg.startsWith raised inside the try and
\* was ignored).
\* let rawMsg = err.message || ""
RawMessage(err) ==
    IF err.hasMessage /\ TruthyField(Some(err.message), err.isString)
    THEN [isString |-> err.isString, text |-> err.message]
    ELSE StringValue(<<>>)

\* rawMsg after the try block: startsWith raises on a value that is no string
\* and the raise is ignored.
AfterTry(raw0) == IF raw0.isString THEN UnwrapMessage(raw0.text) ELSE raw0

\* What the rest of the catch block hands over, given rawMsg, the branch of
\* the chain and retrySeconds.
Handed(unwrapped, kind, retrySeconds) ==
    [kind   |-> kind,
     threw  |-> ~unwrapped.isString,
     rawMsg |-> unwrapped.text,
     msg    |-> IF ~unwrapped.isString THEN <<>> ELSE UserMessage(kind, unwrapped.text),
     arm    |-> IF kind = "RateLimited" /\ retrySeconds # Null /\ retrySeconds[1] > 0
                THEN retrySeconds ELSE Null]

\* The catch block from the regex match on.
MatchAndClassify(unwrapped) ==
    Handed(unwrapped,
           IF ~unwrapped.isString THEN "Threw" ELSE Classify(unwrapped.text),
           RetrySeconds(unwrapped.text))

Classification(err) == MatchAndClassify(AfterTry(RawMessage(err)))

(***************************************************************************)
(* fileParser.ts: extractContentFromFile.                                  *)
(***************************************************************************)
File(name, type) == [name |-> name, type |-> type]

\* Extensions as written in a file name, each with the family the dispatch of
\* extractContentFromFile is to give it, read off by hand.
ProbeExtensions ==
    { [text |-> <<"t","x","t">>, family |-> "txt"],
      [text |-> <<"T","X","T">>, family |-> "txt"],
      [text |-> <<"p","d","f">>, family |-> "pdf"],
      [text |-> <<"P","d","f">>, family |-> "pdf"],
      [text |-> <<"d","o","c","x">>, family |-> "docx"],
      [text |-> <<"D","O","C","X">>, family |-> "docx"],
      [text |-> <<"j","p","g">>, family |-> "image"],
      [text |-> <<"j","p","e","g">>, family |-> "image"],
      [text |-> <<"p","n","g">>, family |-> "image"],
      [text |-> <<"P","N","G">>, family |-> "image"],
      [text |-> <<"w","e","b","p">>, family |-> "image"],
      [text |-> <<"h","e","i","c">>, family |-> "image"],
      [text |-> <<"h","e","i","f">>, family |-> "image"],
      [text |-> <<"g","i","f">>, family |-> "none"],
      [text |-> <<"e","x","e">>, family |-> "none"],
      [text |-> <<"d","o","c">>, family |-> "none"],
      [text |-> <<"n","e","t","w","o","r","k">>, family |-> "none"],
      [text |-> <<>>, family |-> "none"] }

\* Declared MIME types, each with whether it starts with "image/".
ProbeTypes ==
    { [text |-> <<>>, image |-> FALSE],
      [text |-> <<"t","e","x","t","/","p","l","a","i","n">>, image |-> FALSE],
      [text |-> <<"a","p","p","l","i","c","a","t","i","o","n","/","p","d","f">>, image |-> FALSE],
      [text |-> <<"i","m","a","g","e","/","p","n","g">>, image |-> TRUE],
      [text |-> <<"i","m","a","g","e","/","g","i","f">>, image |-> TRUE],
      [text |-> <<"a","p","p","l","i","c","a","t","i","o","n","/","i","m","a","g","e","/","x">>, image |-> FALSE] }

\* What precedes the last dot of a file name.
ProbeStems == { <<"c","v">>, <<"a",".","b">> }

\* The file named stem.extension with the declared type.
ProbeFile(stem, e, t) == File(stem \o <<".">> \o e.text, t.text)

\* A name without a dot.
NameResume == <<"r","e","s","u","m","e">>

\* Files the dispatch is tried on.
ProbeFiles ==
    {ProbeFile(stem, e, t) : stem \in ProbeStems, e \in ProbeExtensions, t \in ProbeTypes}
      \cup {File(NameResume, t.text) : t \in ProbeTypes}

\* The files a user can pick.
Files ==
    { File(NameCvTxt, MimeTextPlain),
      File(NameCvPdf, MimePdf),
      File(NameCvDocx, <<>>),
      File(NameScanPng, <<>>),
      File(NameCvExe, <<>>) } \cup ProbeFiles

\* Lengths of the text a reader or a text backend returns.
TextLengths == {MinResumeLength - 1, MinResumeLength}

\* What FileReader.readAsDataURL hands to onload ("" is an empty result).
DataUrls == {DataUrlPng, <<>>}

\* The same for the files the dispatch is tried on: also a prefix without a
\* type, a prefix naming no image type, and a result without a data segment.
ProbeDataUrls == DataUrls \cup {DataUrlNoType, DataUrlOctet, DataUrlBare}

ImageExtensions ==
    { <<"j","p","g">>, <<"j","p","e","g">>, <<"p","n","g">>,
      <<"w","e","b","p">>, <<"h","e","i","c">>, <<"h","e","i","f">> }

ExtTxt == <<"t","x","t">>

ExtPdf == <<"p","d","f">>

ExtDocx == <<"d","o","c","x">>

\* Positions of the character c in s.
Positions(s, c) == {i \in 1..Len(s) : s[i] = c}

Least(S) == CHOOSE i \in S : \A j \in S : i <= j

Greatest(S) == CHOOSE i \in S : \A j \in S : i >= j

\* file.name.split('.').pop()?.toLowerCase()
Extension(name) ==
    LET dots == Positions(name, ".")
    IN  toLowerCase(IF dots = {} THEN name ELSE SubSeq(name, Greatest(dots) + 1, Len(name)))

\* The image test on the extension alone.
IsImageFileByExtension(file) == Extension(file.name) \in ImageExtensions

IsImageFile(file) ==
    \/ Extension(file.name) \in ImageExtensions
    \/ startsWith(file.type, MimeImagePrefix)

\* FileContent.  A record carries the fields of both variants; those of the
\* other variant are blank (content is kept as its length).
TextContent(n) == [type |-> "text", length |-> n, mimeType |-> <<>>, data |-> Null]

ImageContent(mimeType, data) ==
    [type |-> "image", length |-> 0, mimeType |-> mimeType, data |-> data]

Resolved(content) == [ok |-> TRUE, content |-> content, err |-> Error(<<>>)]

Rejected(err) == [ok |-> FALSE, content |-> TextContent(0), err |-> err]

\* result.split(','): parts[0] and parts[1] (Null when there is no comma).
SplitComma(dataUrl) ==
    LET commas == Positions(dataUrl, ",")
        first  == IF commas = {} THEN Len(dataUrl) + 1 ELSE Least(commas)
        later  == {i \in commas : i > first}
        second == IF later = {} THEN Len(dataUrl) + 1 ELSE Least(later)
    IN  [part0 |-> SubSeq(dataUrl, 1, first - 1),
         part1 |-> IF commas = {} THEN Null ELSE Some(SubSeq(dataUrl, first + 1, second - 1))]

\* parts[0].match(/:(.*?);/): the captured group, Null when there is no match.
MimeMatch(part0) ==
    LET colons == Positions(part0, ":")
        semis  == IF colons = {} THEN {}
                  ELSE {i \in Positions(part0, ";") : i > Least(colons)}
    IN  IF semis = {} THEN Null
        ELSE Some(SubSeq(part0, Least(colons) + 1, Least(semis) - 1))

\* reader.onload taking the type from the prefix before the declared one.
ImageOnLoadPrefixFirst(file, dataUrl) ==
    IF dataUrl = <<>> THEN Rejected(Error(MsgFailedReadImage))
    ELSE LET parts         == SplitComma(dataUrl)
             match         == IF parts.part0 # <<>> THEN MimeMatch(parts.part0) ELSE Null
             finalMimeType == IF match # Null THEN match[1] ELSE file.type
         IN  Resolved(ImageContent(IF finalMimeType # <<>> THEN finalMimeType ELSE MimeJpeg,
                                   parts.part1))

\* reader.onload of readImageFile, on the data URL the reader produced.
ImageOnLoad(file, dataUrl) ==
    IF dataUrl = <<>> THEN Rejected(Error(MsgFailedReadImage))
    ELSE LET parts         == SplitComma(dataUrl)
             match         == IF file.type = <<>> /\ parts.part0 # <<>>
                              THEN MimeMatch(parts.part0) ELSE Null
             finalMimeType == IF match # Null THEN match[1] ELSE file.type
         IN  Resolved(ImageContent(IF finalMimeType # <<>> THEN finalMimeType ELSE MimeJpeg,
                                   parts.part1))

\* readImageFile: every way the read can settle.
readImageFile(file) ==
    {ImageOnLoad(file, dataUrl) : dataUrl \in IF file \in ProbeFiles THEN ProbeDataUrls ELSE DataUrls}
      \cup {Rejected(ReaderErrorEvent)}

\* readTextFile
readTextFile(file) ==
    {Resolved(TextContent(n)) : n \in TextLengths} \cup {Rejected(ReaderErrorEvent)}

\* readPdfFile: the backend missing, the document rejected by the backend, or
\* the text of its pages.
readPdfFile(file, pdfLoaded) ==
    IF ~pdfLoaded THEN {Rejected(Error(MsgPdfNotLoaded))}
    ELSE {Resolved(TextContent(n)) : n \in TextLengths} \cup {Rejected(Error(MsgInvalidPdf))}

\* readDocxFile
readDocxFile(file, docxLoaded) ==
    IF ~docxLoaded THEN {Rejected(Error(MsgDocxNotLoaded))}
    ELSE {Resolved(TextContent(n)) : n \in TextLengths}

\* The dispatch reading a file of any other extension as text.
extractContentFromFileLenient(file, pdfLoaded, docxLoaded) ==
    LET extension == Extension(file.name)
    IN  IF IsImageFile(file) THEN readImageFile(file)
        ELSE IF extension = ExtPdf THEN readPdfFile(file, pdfLoaded)
        ELSE IF extension = ExtDocx THEN readDocxFile(file, docxLoaded)
        ELSE readTextFile(file)

\* extractContentFromFile: the set of ways the extraction of file can settle.
extractContentFromFile(file, pdfLoaded, docxLoaded) ==
    LET extension == Extension(file.name)
    IN  IF IsImageFile(file) THEN readImageFile(file)
        ELSE IF extension = ExtTxt THEN readTextFile(file)
        ELSE IF extension = ExtPdf THEN readPdfFile(file, pdfLoaded)
        ELSE IF extension = ExtDocx THEN readDocxFile(file, docxLoaded)
        ELSE {Rejected(Error(MsgUnsupportedPrefix \o extension))}

(***************************************************************************)
(* geminiService: the remote capability and its answers.                   *)
(***************************************************************************)
\* MODELS_TO_TRY, by position in the list.
MODELS_TO_TRY ==
    << "gemini-2.5-flash", "gemini-2.0-flash", "gemini-2.0-flash-001", "gemini-2.5-pro" >>

\* The generation config, the same object for every attempt.
GenerationConfig ==
    [temperature |-> 0, responseMimeType |-> "application/json"]

\* A parsed answer: the two fields the pipeline reads.  The response schema
\* makes both required, so every parsed answer carries them.
Analysis(score, justification) ==
    [overallScore |-> score, overallJustification |-> justification]

Analyses ==
    { Analysis(0, JustificationInvalidLong),
      Analysis(0, JustificationWeak),
      Analysis(7, JustificationGood) }

\* response.text: Null (no text), a text that is not JSON, or the JSON text
\* of an analysis.
ResponseTexts ==
    {[present |-> FALSE, wellFormed |-> FALSE, value |-> Analysis(0, <<>>)],
     [present |-> TRUE, wellFormed |-> FALSE, value |-> Analysis(0, <<>>)]}
      \cup {[present |-> TRUE, wellFormed |-> TRUE, value |-> a] : a \in Analyses}

\* JSON.parse(jsonText) of analyzeResume.
ParseAnalysis(text) ==
    IF text.wellFormed THEN [ok |-> TRUE, value |-> text.value]
    ELSE [ok |-> FALSE, value |-> text.value]

\* "Quota exceeded. Please retry in <t>s."
QuotaRetryMessage(t) == MsgQuotaRetryOpen \o t \o MsgQuotaRetryClose

DigitText(n) == <<DigitChars[n + 1]>>

\* The messages a failed generateContent call carries.
RemoteErrorMessages ==
    {QuotaRetryMessage(DigitText(MaxRetrySeconds)), Msg503}

\* The body of an error reply whose error.message is the number 429, which
\* the SDK hands over as the message of the error it throws.
MsgJsonNumberError == JsonErrorNumberOpen \o <<"4","2","9">> \o JsonErrorNumberClose

\* Messages of a service that departs from the documented error format.
MalformedErrorMessages == {MsgJsonNumberError}

NoText == [present |-> FALSE, wellFormed |-> FALSE, value |-> Analysis(0, <<>>)]

\* Every way one ai.models.generateContent call can settle.
CallOutcomes ==
    {[ok |-> TRUE, text |-> t, err |-> Error(<<>>)] : t \in ResponseTexts}
      \cup {[ok |-> FALSE, text |-> NoText, err |-> Error(m)] :
               m \in RemoteErrorMessages \cup MalformedErrorMessages}

\* contents of the request: prompt and text in one block, or prompt part and
\* inline image part.
Contents(input) ==
    IF input.type = "text"
    THEN [kind |-> "text", prompt |-> "promptText", length |-> input.length,
          mimeType |-> <<>>, data |-> Null]
    ELSE [kind |-> "parts", prompt |-> "promptText", length |-> 0,
          mimeType |-> input.mimeType, data |-> input.data]

\* The sentinel test with equality in place of startsWith.
SentinelExact(analysis) ==
    /\ analysis.overallScore = 0
    /\ analysis.overallJustification = InvalidResumeMarker

\* analysis.overallScore === 0 && analysis.overallJustification.startsWith("INVALID_RESUME")
Sentinel(analysis) ==
    /\ analysis.overallScore = 0
    /\ startsWith(analysis.overallJustification, InvalidResumeMarker)

(***************************************************************************)
(* State.                                                                  *)
(***************************************************************************)
VARIABLES
    status,          \* AnalysisStatus
    result,          \* Null or <<analysis>>
    errorMsg,        \* Null or <<string>>
    showErrorModal,  \* BOOLEAN
    retryCountdown,  \* Null or <<seconds>>
    selectedFile,    \* Null or <<file>>
    fileName,        \* string
    effectDep,       \* the retryCountdown the countdown effect last ran with
    timers,          \* number of live setInterval timers of the countdown effect
    env,             \* what the host provides: API key, pdfjsLib, mammoth
    runs,            \* the startAnalysis invocations, by slot
    pdf              \* readPdfFile: the document, the loop counter, fullText

vars == <<status, result, errorMsg, showErrorModal, retryCountdown, selectedFile, fileName,
          effectDep, timers, env, runs, pdf>>

Slots == 1..MaxInFlight

\* readPdfFile not running.
PdfIdle == [pc |-> "idle", doc |-> <<>>, i |-> 0, visited |-> <<>>, fullText |-> <<>>]

\* A slot no startAnalysis invocation occupies.
FreeRun ==
    [pc        |-> "free",       \* free, extracting, calling, done
     file      |-> Null,         \* the selectedFile the invocation closed over
     content   |-> Null,         \* what extractContentFromFile resolved to
     analyzed  |-> FALSE,        \* analyzeResume was invoked
     calls     |-> <<>>,         \* the generateContent calls, in order of issue
     lastError |-> Null,         \* generateWithFallback's lastError
     attemptError |-> Null,      \* history: the error of the latest failed call
     outcome   |-> "none",       \* none, success, error
     raised    |-> Null,         \* the value startAnalysis caught
     analysis  |-> Null]         \* the parsed answer analyzeResume returned

Env(apiKey, pdfjsLib, mammoth, files, remote) ==
    [apiKey |-> apiKey, pdfjsLib |-> pdfjsLib, mammoth |-> mammoth, files |-> files,
     remote |-> remote]

\* What the host provides, the files on the user's disk and the messages the
\* remote service fails with: everything provided, a capability missing, or
\* a service whose error replies depart from the documented format.
Envs ==
    { Env(TRUE, TRUE, TRUE, {File(NameCvTxt, MimeTextPlain)}, RemoteErrorMessages),
      Env(TRUE, TRUE, TRUE, {File(NameScanPng, <<>>), File(NameCvExe, <<>>)},
          RemoteErrorMessages),
      Env(TRUE, FALSE, FALSE, {File(NameCvPdf, MimePdf), File(NameCvDocx, <<>>)},
          RemoteErrorMessages),
      Env(FALSE, TRUE, TRUE, {File(NameCvPdf, MimePdf)}, RemoteErrorMessages),
      Env(TRUE, TRUE, TRUE, {File(NameCvTxt, MimeTextPlain)}, MalformedErrorMessages) }

InFlight(r) == runs[r].pc \in {"extracting", "calling"}

\* The record of a finished invocation is kept for one step.
Sweep(rs) == [r \in Slots |-> IF rs[r].pc = "done" THEN FreeRun ELSE rs[r]]

Init ==
    /\ status = "idle"
    /\ result = Null
    /\ errorMsg = Null
    /\ showErrorModal = FALSE
    /\ retryCountdown = Null
    /\ selectedFile = Null
    /\ fileName = <<>>
    /\ effectDep = Null
    /\ timers = 0
    /\ pdf = PdfIdle
    /\ env \in Envs
    /\ runs = [r \in Slots |-> FreeRun]

(***************************************************************************)
(* startAnalysis and analyzeResume, step by step.                          *)
(***************************************************************************)
\* The host with everything provided and one text file on the disk.
FullHost == Env(TRUE, TRUE, TRUE, {File(NameCvTxt, MimeTextPlain)}, RemoteErrorMessages)

\* Fragments of error messages, each with the class a message made of it
\* alone belongs to by the rules of the catch block, read off by hand.

KindFragments ==
    { [text |-> <<"Q","u","o","t","a"," ","e","x","c","e","e","d","e","d",".">>, kind |-> "RateLimited"],
      [text |-> <<"Q","U","O","T","A">>, kind |-> "RateLimited"],
      [text |-> <<"H","T","T","P"," ","4","2","9">>, kind |-> "RateLimited"],
      [text |-> <<"R","a","t","e"," ","L","i","m","i","t"," ","h","i","t">>, kind |-> "RateLimited"],
      [text |-> <<"l","i","m","i","t"," ","E","x","c","e","e","d","e","d">>, kind |-> "RateLimited"],
      [text |-> <<"5","0","3"," ","S","e","r","v","i","c","e">>, kind |-> "ServiceUnavailable"],
      [text |-> <<"M","o","d","e","l"," ","U","N","A","V","A","I","L","A","B","L","E">>, kind |-> "ServiceUnavailable"],
      [text |-> <<"H","i","g","h"," ","D","e","m","a","n","d">>, kind |-> "ServiceUnavailable"],
      [text |-> <<"A","P","I"," ","K","e","y"," ","i","n","v","a","l","i","d">>, kind |-> "AuthError"],
      [text |-> <<"b","a","d"," ","a","p","i","_","k","e","y">>, kind |-> "AuthError"],
      [text |-> <<"H","T","T","P"," ","4","0","1">>, kind |-> "AuthError"],
      [text |-> <<"a","p","i"," ","k","e","y"," ","i","n","v","a","l","i","d">>, kind |-> "Unknown"],
      [text |-> <<"N","e","t","w","o","r","k"," ","d","o","w","n">>, kind |-> "NetworkError"],
      [text |-> <<"F","a","i","l","e","d"," ","t","o"," ","f","e","t","c","h">>, kind |-> "NetworkError"],
      [text |-> <<"c","o","u","l","d"," ","n","o","t"," ","F","e","t","c","h">>, kind |-> "NetworkError"],
      [text |-> <<"i","n","t","e","r","n","a","l"," ","e","r","r","o","r">>, kind |-> "Unknown"],
      [text |-> <<>>, kind |-> "Unknown"] }

\* Fragments that do or do not announce a delay, each with the whole seconds
\* the catch block is to extract from it (0: none).

DelayFragments ==
    { [text |-> <<>>, seconds |-> 0],
      [text |-> <<"P","l","e","a","s","e"," ","r","e","t","r","y"," ","i","n"," ","1","8",".","6","s",".">>, seconds |-> 19],
      [text |-> <<"r","e","t","r","y"," ","i","n"," ","3","s">>, seconds |-> 3],
      [text |-> <<"R","e","t","r","y"," ","I","n"," ","7","S">>, seconds |-> 7],
      [text |-> <<"r","e","t","r","y"," ","i","n"," ","1","2",".","0","s">>, seconds |-> 12],
      [text |-> <<"r","e","t","r","y"," ","i","n"," ","0","s">>, seconds |-> 0],
      [text |-> <<"r","e","t","r","y"," ","i","n"," ","0",".","0","s">>, seconds |-> 0],
      [text |-> <<"r","e","t","r","y"," ","i","n"," ","0",".","4","s">>, seconds |-> 1],
      [text |-> <<"r","e","t","r","y"," ","i","n"," ",".","s">>, seconds |-> 0],
      [text |-> <<"r","e","t","r","y"," ","i","n"," ","5"," ","s">>, seconds |-> 0],
      [text |-> <<"r","e","t","r","y"," ","i","n"," ","1","2">>, seconds |-> 0] }

\* A message made of two fragments and a delay, separated by spaces.
ProbeMessage(a, b, d) == a.text \o <<" ">> \o b.text \o <<" ">> \o d.text

\* The messages the catch block is tried on: every pair of fragments without
\* a delay and with a delay of 3 seconds, and every fragment with every delay.
ProbeTriples ==
    {x \in KindFragments \X KindFragments \X DelayFragments :
       x[2].text = <<>> \/ x[3].seconds = 3 \/ x[3].text = <<>>}

\* The delay put after the text of error.message and the texts of message,
\* each with its class and the seconds it announces, read off by hand.
InnerDelays ==
    { [text |-> <<>>, seconds |-> 0],
      [text |-> <<" ","r","e","t","r","y"," ","i","n"," ","3","s">>, seconds |-> 3] }

OuterTexts ==
    { [text |-> <<>>, kind |-> "Unknown", seconds |-> 0],
      [text |-> <<"5","0","3"," ","S","e","r","v","i","c","e"," ","r","e","t","r","y"," ","i","n"," ","7","s">>, kind |-> "ServiceUnavailable", seconds |-> 7],
      [text |-> <<"Q","u","o","t","a"," ","e","x","c","e","e","d","e","d",".">>, kind |-> "RateLimited", seconds |-> 0] }

\* {"error":{"code":429,"message":"<a><d>"},"message":"<b>"}
BothProbe(a, d, b) ==
    JsonBothOpen \o a.text \o d.text \o JsonBothMid \o b.text \o JsonMessageClose

\* The same reply cut off after the text of error.message.
CutProbe(a, d) == JsonBothOpen \o a.text \o d.text

\* A message of n characters that matches no rule of the chain: "x" up to
\* the length shown, "y" beyond.
Filler(n) == [i \in 1..n |-> IF i <= MaxShownLength THEN "x" ELSE "y"]

FillerLengths ==
    {1, MaxShownLength - 1, MaxShownLength, MaxShownLength + 1, MaxShownLength + 7}

\* Largest whole part of the delays written out in full.
MaxProbeWhole == 20

\* n < 100 in decimal digits.
DecimalText(n) == IF n < 10 THEN DigitText(n) ELSE DigitText(n \div 10) \o DigitText(n % 10)

\* What follows the whole part of a delay, and whether it makes the delay
\* exceed its whole part.
FractionTexts ==
    { [text |-> <<>>, positive |-> FALSE],
      [text |-> <<".","0">>, positive |-> FALSE],
      [text |-> <<".","0","0">>, positive |-> FALSE],
      [text |-> <<".","6">>, positive |-> TRUE],
      [text |-> <<".","0","5">>, positive |-> TRUE] }

\* "Quota exceeded. Please retry in <w><f>s."
NumberProbe(w, f) == QuotaRetryMessage(DecimalText(w) \o f.text)

\* The values the catch block is tried on: errors with these messages, the
\* same message inside the two JSON wrappers, JSON wrappers around a number,
\* and rejection values without a message or with one that is no string.
ProbeErrors ==
    {Error(ProbeMessage(x[1], x[2], x[3])) : x \in ProbeTriples}
      \cup {Error(JsonErrorMessageOpen \o ProbeMessage(x[1], x[2], x[3]) \o JsonErrorMessageClose) :
               x \in {y \in ProbeTriples : y[2].text = <<>>}}
      \cup {Error(JsonMessageOpen \o ProbeMessage(x[1], x[2], x[3]) \o JsonMessageClose) :
               x \in {y \in ProbeTriples : y[2].text = <<>> /\ y[3].text = <<>>}}
      \cup {Error(NumberProbe(w, f)) : w \in 0..MaxProbeWhole, f \in FractionTexts}
      \cup {Error(BothProbe(a, d, b)) : a \in KindFragments, d \in InnerDelays, b \in OuterTexts}
      \cup {Error(CutProbe(a, d)) : a \in KindFragments, d \in InnerDelays}
      \cup {Error(Filler(n)) : n \in FillerLengths}
      \cup {Error(JsonErrorMessageOpen \o Filler(n) \o JsonErrorMessageClose) : n \in FillerLengths}
      \cup {Error(Filler(n) \o <<" ">> \o KwQuota) : n \in FillerLengths}
      \cup {Error(MsgJsonNumberError),
            Error(JsonNumberOpen \o <<"5","0","3">> \o JsonNumberClose),
            Error(JsonNumberOpen \o <<"0">> \o JsonNumberClose),
            Error(JsonEmptyObject), Error(JsonEmptyArray), Error(<<"{">>),
            NumberMessageError(<<"4","2","9">>), NumberMessageError(<<"0">>),
            ErrorNoMessage, ReaderErrorEvent}

\* Every value the pipeline can throw.
Thrown ==
    ProbeErrors \cup
    {o.err : o \in UNION {extractContentFromFile(f, pdfLoaded, docxLoaded) :
                            f \in Files, pdfLoaded \in BOOLEAN, docxLoaded \in BOOLEAN}}
      \cup {Error(m) : m \in RemoteErrorMessages \cup MalformedErrorMessages}
      \cup {Error(MsgTooShort), Error(MsgInvalidResume), Error(MsgApiKeyMissing),
            Error(MsgEmptyResponse), Error(MsgJsonSyntaxError),
            Error(MsgAllModelsFailed)}

\* Classification, tabulated over the values thrown.
Classified == [err \in Thrown |-> Classification(err)]

\* extractContentFromFile, tabulated over the files and the two libraries.
Extracted ==
    [f \in Files, pdfLoaded \in BOOLEAN, docxLoaded \in BOOLEAN |->
       extractContentFromFile(f, pdfLoaded, docxLoaded)]

\* The ways a generateContent call settles, by host.
RemoteOutcomes == [e \in Envs |-> {o \in CallOutcomes : o.ok \/ o.err.message \in e.remote}]

\* The catch block of startAnalysis: the four state setters it calls.
\* The state setters of the catch block, none of them reached when the
\* block raised.
Setters(c) ==
    IF c.threw
    THEN UNCHANGED <<retryCountdown, errorMsg, showErrorModal, status>>
    ELSE /\ retryCountdown' = IF c.arm # Null THEN c.arm ELSE retryCountdown
         /\ errorMsg' = Some(c.msg)
         /\ showErrorModal' = TRUE
         /\ status' = "error"

CatchBlock(err) == Setters(Classified[err])

\* The catch block starting the run over on its own.
FailAndRetry(r, run, err) ==
    /\ CatchBlock(err)
    /\ runs' = [Sweep(runs) EXCEPT ![r] = [FreeRun EXCEPT !.pc = "extracting",
                                                        !.file = run.file]]
    /\ UNCHANGED <<result, selectedFile, fileName, effectDep, timers, env, pdf>>

\* The invocation in slot r ends in the catch block with err.
Fail(r, run, err) ==
    /\ CatchBlock(err)
    /\ runs' = [Sweep(runs) EXCEPT ![r] = [run EXCEPT !.pc = "done", !.outcome = "error",
                                               !.raised = Some(err)]]
    /\ UNCHANGED <<result, selectedFile, fileName, effectDep, timers, env, pdf>>

\* The gate with the comparison off by one.
TooShortOffByOne(content) == content.type = "text" /\ content.length <= MinResumeLength

\* The gate left out.
TooShortNever(content) == FALSE

\* The length gate of startAnalysis.
TooShort(content) == content.type = "text" /\ content.length < MinResumeLength

\* One generateContent call of generateWithFallback, as issued.
Call(k, contents) ==
    [model |-> k, contents |-> contents, config |-> GenerationConfig, result |-> "pending"]

\* lastError assigned only while it is unset.
RecordErrorKeepsFirst(lastError, err) == IF lastError = Null THEN Some(err) ELSE lastError

\* generateWithFallback: lastError = error
RecordError(lastError, err) == Some(err)

\* The loop stepping over a model.
NextModelSkips(k) == k + 2

\* generateWithFallback: the position of the model tried after position k.
NextModel(k) == k + 1

\* The loop giving up one model early.
HasNextModelShort(k) == k < Len(MODELS_TO_TRY) - 1

\* generateWithFallback: the for-of loop has a model left after position k.
HasNextModel(k) == k < Len(MODELS_TO_TRY)

\* The free slot a new invocation takes.
FreeSlots == {r \in Slots : ~InFlight(r)}

\* startAnalysis, up to its first await.
StartAnalysis ==
    /\ status \in {"idle", "error"}
    /\ IF selectedFile = Null
       THEN /\ errorMsg' = Some(MsgSelectFile)
            /\ showErrorModal' = TRUE
            /\ UNCHANGED <<status, result, retryCountdown, selectedFile, fileName,
                           effectDep, timers, env, pdf>>
            /\ runs' = Sweep(runs)
       ELSE /\ FreeSlots # {}
            /\ status' = "parsing"
            /\ errorMsg' = Null
            /\ runs' = [Sweep(runs) EXCEPT ![Least(FreeSlots)] =
                          [FreeRun EXCEPT !.pc = "extracting", !.file = selectedFile]]
            /\ UNCHANGED <<result, showErrorModal, retryCountdown, selectedFile, fileName,
                           effectDep, timers, env, pdf>>

\* startAnalysis resumes after await extractContentFromFile(selectedFile):
\* the gate, setStatus('analyzing'), and analyzeResume up to its first
\* generateContent call.
ExtractionSettles(r) ==
    /\ runs[r].pc = "extracting"
    /\ \E o \in Extracted[runs[r].file[1], env.pdfjsLib, env.mammoth] :
         IF ~o.ok THEN Fail(r, runs[r], o.err)
         ELSE LET run == [runs[r] EXCEPT !.content = Some(o.content)]
              IN  IF TooShort(o.content) THEN Fail(r, run, Error(MsgTooShort))
                  ELSE IF ~env.apiKey
                  THEN Fail(r, [run EXCEPT !.analyzed = TRUE], Error(MsgApiKeyMissing))
                  ELSE /\ status' = "analyzing"
                       /\ runs' = [Sweep(runs) EXCEPT ![r] =
                                     [run EXCEPT !.pc = "calling", !.analyzed = TRUE,
                                                 !.calls = <<Call(1, Contents(o.content))>>]]
                       /\ UNCHANGED <<result, errorMsg, showErrorModal, retryCountdown,
                                      selectedFile, fileName, effectDep, timers, env, pdf>>

\* What analyzeResume does with the response generateWithFallback returned,
\* and what startAnalysis does with the analysis: Null when the run succeeds,
\* otherwise the error thrown.
AfterResponse(text) ==
    IF ~text.present THEN Some(Error(MsgEmptyResponse))
    ELSE LET parsed == ParseAnalysis(text)
         IN  IF ~parsed.ok THEN Some(Error(MsgJsonSyntaxError))
             ELSE IF Sentinel(parsed.value) THEN Some(Error(MsgInvalidResume))
             ELSE Null

\* The loop returning only a response whose text parses.
ReturnedParseable(o) == o.ok /\ o.text.present /\ ParseAnalysis(o.text).ok

\* generateWithFallback: the try block returns the response of the call that
\* resolved; a rejected call lands in the catch block of the loop.
Returned(o) == o.ok

\* The pending generateContent call of slot r settles: the fallback loop moves
\* on or ends, analyzeResume returns or throws, startAnalysis finishes.
ModelCallSettles(r) ==
    /\ runs[r].pc = "calling"
    /\ \E o \in RemoteOutcomes[env] :
         LET run == runs[r]
             k   == Len(run.calls)
             settled == [run EXCEPT !.calls[k].result = IF o.ok THEN "ok" ELSE "failed"]
         IN  IF Returned(o)
             THEN LET done   == settled
                      thrown == AfterResponse(o.text)
                  IN  IF thrown # Null
                      THEN Fail(r, [done EXCEPT !.analysis =
                                      IF ParseAnalysis(o.text).ok /\ o.text.present
                                      THEN Some(o.text.value) ELSE Null], thrown[1])
                      ELSE /\ result' = Some(o.text.value)
                           /\ status' = "success"
                           /\ runs' = [Sweep(runs) EXCEPT ![r] =
                                         [done EXCEPT !.pc = "done", !.outcome = "success",
                                                      !.analysis = Some(o.text.value)]]
                           /\ UNCHANGED <<errorMsg, showErrorModal, retryCountdown,
                                          selectedFile, fileName, effectDep, timers, env, pdf>>
             ELSE LET failed == [settled EXCEPT
                                            !.lastError = RecordError(run.lastError, o.err),
                                            !.attemptError = Some(o.err)]
                      model  == run.calls[k].model
                  IN  IF HasNextModel(model)
                      THEN /\ runs' = [Sweep(runs) EXCEPT ![r] =
                                         [failed EXCEPT !.calls =
                                            Append(@, Call(NextModel(model),
                                                           run.calls[k].contents))]]
                           /\ UNCHANGED <<status, result, errorMsg, showErrorModal,
                                          retryCountdown, selectedFile, fileName,
                                          effectDep, timers, env, pdf>>
                      ELSE Fail(r, failed,
                                IF failed.lastError # Null THEN failed.lastError[1]
                                ELSE Error(MsgAllModelsFailed))

(***************************************************************************)
(* The other handlers of App.                                              *)
(***************************************************************************)
\* handleFileSelection, reachable from the upload card of the idle / error view.
HandleFileSelection ==
    /\ status \in {"idle", "error"}
    /\ \E file \in env.files :
         /\ selectedFile' = Some(file)
         /\ fileName' = file.name
         /\ IF status = "error" \/ status = "success"
            THEN status' = "idle" /\ result' = Null /\ errorMsg' = Null
            ELSE UNCHANGED <<status, result, errorMsg>>
    /\ UNCHANGED <<showErrorModal, retryCountdown, effectDep, timers, env, pdf>>
    /\ runs' = Sweep(runs)

\* resetAnalysis without its setStatus('idle').
ResetAnalysisKeepsStatus ==
    /\ result' = Null
    /\ fileName' = <<>>
    /\ selectedFile' = Null
    /\ UNCHANGED <<status, errorMsg, showErrorModal, retryCountdown, effectDep, timers, env, pdf>>
    /\ runs' = Sweep(runs)

\* resetAnalysis: the logo, always on screen, and the Re-upload button.
ResetAnalysis ==
    /\ status' = "idle"
    /\ result' = Null
    /\ fileName' = <<>>
    /\ selectedFile' = Null
    /\ UNCHANGED <<errorMsg, showErrorModal, retryCountdown, effectDep, timers, env, pdf>>
    /\ runs' = Sweep(runs)

\* handleDownloadSnapshot, reachable from the results view, on the path where
\* the snapshot throws; the other path writes none of the modelled state.
HandleDownloadSnapshot ==
    /\ status = "success"
    /\ result # Null
    /\ errorMsg' = Some(MsgReportFailed)
    /\ showErrorModal' = TRUE
    /\ UNCHANGED <<status, result, retryCountdown, selectedFile, fileName, effectDep,
                   timers, env, pdf>>
    /\ runs' = Sweep(runs)

\* The error modal is rendered when showErrorModal && errorMsg.
ModalShown == showErrorModal /\ Truthy(errorMsg)

\* The OK button and the backdrop of the error modal.
DismissError ==
    /\ ModalShown
    /\ showErrorModal' = FALSE
    /\ UNCHANGED <<status, result, errorMsg, retryCountdown, selectedFile, fileName,
                   effectDep, timers, env, pdf>>
    /\ runs' = Sweep(runs)

(***************************************************************************)
(* The countdown effect: useEffect(..., [retryCountdown]).                 *)
(***************************************************************************)
\* The effect is due when retryCountdown differs from its last dependency.
EffectDue == retryCountdown # effectDep

\* The effect without its cleanup.
AfterCleanupLeaks == timers

\* Timers left after the cleanup of the previous run of the effect, which
\* returned clearInterval only when it had set an interval.
AfterCleanup == IF effectDep # Null /\ effectDep[1] > 0 THEN timers - 1 ELSE timers

\* The updater counting two seconds per firing.
TickUpdateByTwo(prev) == IF prev # Null /\ prev[1] > 1 THEN Some(prev[1] - 2) ELSE Some(0)

\* The updater the interval passes to setRetryCountdown.
TickUpdate(prev) == IF prev # Null /\ prev[1] > 0 THEN Some(prev[1] - 1) ELSE Some(0)

\* The effect leaving a countdown that reached 0 as it is.
CountdownEffectKeepsZero ==
    /\ EffectDue
    /\ effectDep' = retryCountdown
    /\ IF retryCountdown = Null
       THEN /\ timers' = AfterCleanup
            /\ UNCHANGED <<retryCountdown, showErrorModal>>
       ELSE IF retryCountdown[1] <= 0
       THEN /\ showErrorModal' = FALSE
            /\ timers' = AfterCleanup
            /\ UNCHANGED retryCountdown
       ELSE /\ timers' = AfterCleanup + 1
            /\ UNCHANGED <<retryCountdown, showErrorModal>>
    /\ UNCHANGED <<status, result, errorMsg, selectedFile, fileName, env, pdf>>
    /\ runs' = Sweep(runs)

CountdownEffect ==
    /\ EffectDue
    /\ effectDep' = retryCountdown
    /\ IF retryCountdown = Null
       THEN /\ timers' = AfterCleanup
            /\ UNCHANGED <<retryCountdown, showErrorModal>>
       ELSE IF retryCountdown[1] <= 0
       THEN /\ retryCountdown' = Null
            /\ showErrorModal' = FALSE
            /\ timers' = AfterCleanup
       ELSE /\ timers' = AfterCleanup + 1
            /\ UNCHANGED <<retryCountdown, showErrorModal>>
    /\ UNCHANGED <<status, result, errorMsg, selectedFile, fileName, env, pdf>>
    /\ runs' = Sweep(runs)

\* One firing of the interval set by the effect.
Tick ==
    /\ timers > 0
    /\ retryCountdown' = TickUpdate(retryCountdown)
    /\ UNCHANGED <<status, result, errorMsg, showErrorModal, selectedFile, fileName,
                   effectDep, timers, env, pdf>>
    /\ runs' = Sweep(runs)

Next ==
    \/ StartAnalysis
    \/ \E r \in Slots : ExtractionSettles(r)
    \/ \E r \in Slots : ModelCallSettles(r)
    \/ HandleFileSelection
    \/ ResetAnalysis
    \/ HandleDownloadSnapshot
    \/ DismissError
    \/ CountdownEffect
    \/ Tick

Spec == Init /\ [][Next]_vars

\* The browser fires a live interval and React runs a due effect.
FairSpec == Spec /\ WF_vars(Tick) /\ WF_vars(CountdownEffect)

(***************************************************************************)
(* The catch block of startAnalysis on its own: a run that has just raised *)
(* a value, and the catch block applied to it.                             *)
(***************************************************************************)
ClassifierInit ==
    /\ status = "analyzing"
    /\ result = Null
    /\ errorMsg = Null
    /\ showErrorModal = FALSE
    /\ retryCountdown = Null
    /\ selectedFile = Some(File(NameCvTxt, MimeTextPlain))
    /\ fileName = NameCvTxt
    /\ effectDep = Null
    /\ timers = 0
    /\ pdf = PdfIdle
    /\ env = FullHost
    /\ \E err \in ProbeErrors :
         runs = [r \in Slots |-> IF r = 1 THEN [FreeRun EXCEPT !.pc = "caught",
                                                               !.file = selectedFile,
                                                               !.raised = Some(err)]
                                 ELSE FreeRun]

\* catch (err) { ... } of startAnalysis.
CatchRaised ==
    /\ runs[1].pc = "caught"
    /\ Fail(1, runs[1], runs[1].raised[1])

ClassifierNext == CatchRaised

ClassifierSpec == ClassifierInit /\ [][ClassifierNext]_vars

(***************************************************************************)
(* extractContentFromFile on its own: startAnalysis awaiting the           *)
(* extraction of the selected file, for every file and every host.         *)
(***************************************************************************)
ExtractorInit ==
    /\ status = "parsing"
    /\ result = Null
    /\ errorMsg = Null
    /\ showErrorModal = FALSE
    /\ retryCountdown = Null
    /\ selectedFile \in {Some(f) : f \in ProbeFiles}
    /\ fileName = selectedFile[1].name
    /\ effectDep = Null
    /\ timers = 0
    /\ pdf = PdfIdle
    /\ env \in {Env(TRUE, pdfLoaded, docxLoaded, {selectedFile[1]}, RemoteErrorMessages) :
                  pdfLoaded \in BOOLEAN, docxLoaded \in BOOLEAN}
    /\ runs = [r \in Slots |-> IF r = 1 THEN [FreeRun EXCEPT !.pc = "extracting",
                                                             !.file = selectedFile]
                               ELSE FreeRun]

ExtractorNext == \E r \in Slots : ExtractionSettles(r)

ExtractorSpec == ExtractorInit /\ [][ExtractorNext]_vars

(***************************************************************************)
(* readPdfFile on its own, one await at a time (fileParser.ts 82-99).      *)
(***************************************************************************)
\* The text items of a page, each with the text join(' ') is to give, written
\* out by hand.
Pages ==
    { [items |-> <<>>, text |-> <<>>],
      [items |-> << <<"A">> >>, text |-> <<"A">>],
      [items |-> << <<"B">> >>, text |-> <<"B">>],
      [items |-> << <<"C">> >>, text |-> <<"C">>],
      [items |-> << <<"J","o">>, <<"D","o","e">> >>, text |-> <<"J","o"," ","D","o","e">>],
      [items |-> << <<"a">>, <<>>, <<"b">> >>, text |-> <<"a"," "," ","b">>] }

\* The documents: up to MaxPages pages.
Documents == UNION {[1..n -> Pages] : n \in 0..MaxPages}

\* items.join(' ')
RECURSIVE JoinSpace(_)
JoinSpace(items) ==
    IF items = <<>> THEN <<>>
    ELSE IF Len(items) = 1 THEN items[1]
    ELSE JoinSpace(SubSeq(items, 1, Len(items) - 1)) \o <<" ">> \o items[Len(items)]

\* The pdf.js library is missing: line 83-85.
PdfNotLoaded ==
    /\ pdf.pc = "loading"
    /\ ~env.pdfjsLib
    /\ pdf' = [pdf EXCEPT !.pc = "threw"]
    /\ UNCHANGED <<status, result, errorMsg, showErrorModal, retryCountdown, selectedFile,
                   fileName, effectDep, timers, env, runs>>

\* getDocument resolves; fullText = '' and the loop starts at i = 1.
PdfGetDocument ==
    /\ pdf.pc = "loading"
    /\ env.pdfjsLib
    /\ pdf' = [pdf EXCEPT !.pc = "loop", !.i = 1, !.fullText = <<>>]
    /\ UNCHANGED <<status, result, errorMsg, showErrorModal, retryCountdown, selectedFile,
                   fileName, effectDep, timers, env, runs>>

\* i <= pdf.numPages: await pdf.getPage(i).
PdfGetPage ==
    /\ pdf.pc = "loop"
    /\ pdf.i <= Len(pdf.doc)
    /\ pdf' = [pdf EXCEPT !.pc = "page", !.visited = Append(pdf.visited, pdf.i)]
    /\ UNCHANGED <<status, result, errorMsg, showErrorModal, retryCountdown, selectedFile,
                   fileName, effectDep, timers, env, runs>>

\* The step appending the page's text in front of fullText.
PdfGetTextContentPrepended ==
    /\ pdf.pc = "page"
    /\ pdf' = [pdf EXCEPT !.pc = "loop", !.i = pdf.i + 1,
                          !.fullText = JoinSpace(pdf.doc[pdf.i].items) \o <<"\n">> \o pdf.fullText]
    /\ UNCHANGED <<status, result, errorMsg, showErrorModal, retryCountdown, selectedFile,
                   fileName, effectDep, timers, env, runs>>

\* await page.getTextContent(); fullText += pageText + '\n'; i++.
PdfGetTextContent ==
    /\ pdf.pc = "page"
    /\ pdf' = [pdf EXCEPT !.pc = "loop", !.i = pdf.i + 1,
                          !.fullText = pdf.fullText \o JoinSpace(pdf.doc[pdf.i].items) \o <<"\n">>]
    /\ UNCHANGED <<status, result, errorMsg, showErrorModal, retryCountdown, selectedFile,
                   fileName, effectDep, timers, env, runs>>

\* i > pdf.numPages: return fullText.
PdfReturn ==
    /\ pdf.pc = "loop"
    /\ pdf.i > Len(pdf.doc)
    /\ pdf' = [pdf EXCEPT !.pc = "returned"]
    /\ UNCHANGED <<status, result, errorMsg, showErrorModal, retryCountdown, selectedFile,
                   fileName, effectDep, timers, env, runs>>

\* startAnalysis awaiting the extraction of cv.pdf, readPdfFile just entered.
PdfInit ==
    /\ status = "parsing"
    /\ result = Null
    /\ errorMsg = Null
    /\ showErrorModal = FALSE
    /\ retryCountdown = Null
    /\ selectedFile = Some(File(NameCvPdf, MimePdf))
    /\ fileName = NameCvPdf
    /\ effectDep = Null
    /\ timers = 0
    /\ env \in {Env(TRUE, pdfLoaded, TRUE, {File(NameCvPdf, MimePdf)}, RemoteErrorMessages) :
                  pdfLoaded \in BOOLEAN}
    /\ runs = [r \in Slots |-> IF r = 1 THEN [FreeRun EXCEPT !.pc = "extracting",
                                                             !.file = selectedFile]
                               ELSE FreeRun]
    /\ pdf \in {[PdfIdle EXCEPT !.pc = "loading", !.doc = d] : d \in Documents}

PdfNext ==
    \/ PdfNotLoaded
    \/ PdfGetDocument
    \/ PdfGetPage
    \/ PdfGetTextContent
    \/ PdfReturn

PdfSpec == PdfInit /\ [][PdfNext]_vars

(***************************************************************************)
(* Properties.                                                             *)
(***************************************************************************)
Settled(r) == runs[r].pc \in {"calling", "done"}

Finished(r) == runs[r].pc = "done"

ShortText(c) == c.type = "text" /\ c.length < 200

\* C1: analyzeResume is invoked if and only if extraction succeeded and the
\* content is not a text shorter than 200 characters; a shorter text fails
\* with the too-short error after no remote call, a text of 200 or more
\* characters and every image proceed to analysis.
C1_GateDecidesAnalysis ==
    \A r \in Slots :
      /\ runs[r].pc \in {"free", "extracting"} => ~runs[r].analyzed
      /\ Settled(r) =>
           /\ runs[r].analyzed <=> (runs[r].content # Null /\ ~ShortText(runs[r].content[1]))
           /\ (runs[r].content # Null /\ ShortText(runs[r].content[1])) =>
                /\ Finished(r)
                /\ runs[r].outcome = "error"
                /\ runs[r].raised = Some(Error(MsgTooShort))
                /\ runs[r].calls = <<>>
           /\ (runs[r].content # Null /\ runs[r].content[1].type = "image") => runs[r].analyzed

C1_Witness ==
    \E r \in Slots :
      /\ Finished(r)
      /\ runs[r].content = Some(TextContent(199))
      /\ ~runs[r].analyzed
      /\ runs[r].raised = Some(Error(MsgTooShort))

IsSentinel(a) == a.overallScore = 0 /\ startsWith(a.overallJustification, InvalidResumeMarker)

\* C2: a parsed response that satisfies the sentinel condition ends the run in
\* the invalid-document error, is never the result and never gives status
\* success; every other parsed response becomes the result, unchanged, with
\* status success.
C2_SentinelNeverSuccess ==
    /\ result # Null => ~IsSentinel(result[1])
    /\ \A r \in Slots :
         (Finished(r) /\ runs[r].analysis # Null) =>
           IF IsSentinel(runs[r].analysis[1])
           THEN /\ runs[r].outcome = "error"
                /\ runs[r].raised = Some(Error(MsgInvalidResume))
                /\ status = "error"
                /\ result # runs[r].analysis
           ELSE /\ runs[r].outcome = "success"
                /\ status = "success"
                /\ result = runs[r].analysis

C2_Witness ==
    \E r \in Slots :
      /\ Finished(r)
      /\ runs[r].analysis # Null
      /\ IsSentinel(runs[r].analysis[1])
      /\ runs[r].outcome = "error"

\* C3: within one analysis the models are called one at a time in the order
\* of MODELS_TO_TRY with the same contents and config: the k-th call goes to
\* model k after calls 1..k-1 failed, nothing is called after a success, so
\* there is at most one successful call and at most 4 calls.
C3_SequentialFallback ==
    /\ Len(MODELS_TO_TRY) = 4
    /\ \A r \in Slots :
         LET calls == runs[r].calls
         IN  /\ Len(calls) <= 4
             /\ \A k \in 1..Len(calls) :
                  /\ calls[k].model = k
                  /\ calls[k].contents = calls[1].contents
                  /\ calls[k].config = calls[1].config
                  /\ k < Len(calls) => calls[k].result = "failed"
             /\ Cardinality({k \in 1..Len(calls) : calls[k].result = "ok"}) <= 1
             /\ Cardinality({k \in 1..Len(calls) : calls[k].result = "pending"}) <= 1
             /\ (runs[r].pc = "calling") <=>
                  (calls # <<>> /\ calls[Len(calls)].result = "pending")
             /\ runs[r].content # Null /\ calls # <<>> =>
                  calls[1].contents = Contents(runs[r].content[1])

C3_Witness ==
    \E r \in Slots :
      /\ Len(runs[r].calls) = 4
      /\ runs[r].calls[4].result = "ok"

AllFailed(r) ==
    /\ Len(runs[r].calls) = Len(MODELS_TO_TRY)
    /\ \A k \in 1..Len(runs[r].calls) : runs[r].calls[k].result = "failed"

\* C4: when all the models were attempted and all failed, the analysis fails
\* with the error of the last attempt; the errors of the earlier attempts are
\* not kept.
C4_LastErrorRaised ==
    \A r \in Slots :
      /\ runs[r].lastError = runs[r].attemptError
      /\ (Finished(r) /\ AllFailed(r)) =>
           /\ runs[r].outcome = "error"
           /\ runs[r].raised # Null
           /\ runs[r].raised = runs[r].attemptError

C4_Witness ==
    \E r \in Slots :
      /\ Finished(r)
      /\ AllFailed(r)
      /\ runs[r].raised = Some(Error(Msg503))

Unparsed(r) ==
    /\ runs[r].calls # <<>>
    /\ runs[r].calls[Len(runs[r].calls)].result = "ok"
    /\ runs[r].analysis = Null

AnalyzeRaised(r) == Finished(r) /\ runs[r].analyzed /\ runs[r].analysis = Null

C7_LocalFailureNoRemoteCall ==
    \A r \in Slots :
      (Settled(r) /\ (runs[r].content = Null \/ ShortText(runs[r].content[1]))) =>
        /\ Finished(r)
        /\ runs[r].calls = <<>>
        /\ runs[r].outcome = "error"
        /\ status = "error"

C7_Witness ==
    \E r \in Slots :
      /\ Finished(r)
      /\ runs[r].content = Null
      /\ runs[r].raised = Some(Error(MsgPdfNotLoaded))
      /\ runs[r].calls = <<>>

\* C8, as claimed: at most one pipeline run is in flight at any time.
C8_OneRunInFlight == Cardinality({r \in Slots : InFlight(r)}) <= 1

RunEnds == \E r \in Slots : InFlight(r) /\ runs'[r].pc = "done"

\* C9: a step that changes the countdown is a re-arming by a failing run, a
\* tick that lowers a positive value by exactly 1, or the step from 0 to Idle
\* that also hides the error modal and leaves no timer.
C9_Step ==
    retryCountdown' # retryCountdown =>
      \/ /\ RunEnds
         /\ retryCountdown' # Null
         /\ retryCountdown'[1] > 0
      \/ /\ retryCountdown # Null
         /\ retryCountdown[1] > 0
         /\ retryCountdown' = Some(retryCountdown[1] - 1)
      \/ /\ retryCountdown = Some(0)
         /\ retryCountdown' = Null
         /\ ~showErrorModal'
         /\ timers' = 0

\* A failing run has just armed the countdown.
Rearmed ==
    \E r \in Slots :
      /\ Finished(r)
      /\ runs[r].outcome = "error"
      /\ Classified[runs[r].raised[1]].arm # Null

\* C9: an armed countdown goes n, n-1, ..., 0 by steps of 1, then to Idle
\* with the error modal hidden; with the interval firing and the effect
\* running, an armed countdown that is not re-armed returns to Idle.
C9_CountdownRuns ==
    /\ [][C9_Step]_vars
    /\ (retryCountdown # Null) ~> (retryCountdown = Null \/ Rearmed)

C9_Witness ==
    /\ retryCountdown = Null
    /\ effectDep = Some(0)
    /\ timers = 0
    /\ ~showErrorModal
    /\ errorMsg = Some(MsgRateLimited)

\* C10, as claimed: dismissing the error modal while the countdown runs sets
\* the countdown to Idle at once and leaves no tick scheduled.
C10_DismissStopsCountdown ==
    [][(DismissError /\ retryCountdown # Null) => (retryCountdown' = Null /\ timers' = 0)]_vars

\* The catch block has run on err.
Caught(err) == runs[1].pc = "done" /\ runs[1].raised = Some(err)

\* Order of the classes in the catch block.
Rank(kind) ==
    CASE kind = "RateLimited"        -> 1
      [] kind = "ServiceUnavailable" -> 2
      [] kind = "AuthError"          -> 3
      [] kind = "NetworkError"       -> 4
      [] OTHER                       -> 5

\* The class of a message made of the fragments a and b.
ExpectedKind(a, b) == IF Rank(a.kind) <= Rank(b.kind) THEN a.kind ELSE b.kind

\* C11: the countdown leaves Idle only for a failure classified RateLimited
\* whose message carries a positive delay, and then starts at that delay; a
\* failure of any other class leaves it Idle whatever delay its message
\* carries, and so does a RateLimited failure without a positive delay.
C11_ArmedOnlyByRateLimitWithDelay ==
    /\ retryCountdown # Null => errorMsg = Some(MsgRateLimited)
    /\ \A x \in ProbeTriples :
         Caught(Error(ProbeMessage(x[1], x[2], x[3]))) =>
           retryCountdown =
             IF ExpectedKind(x[1], x[2]) = "RateLimited" /\ x[3].seconds > 0
             THEN Some(x[3].seconds) ELSE Null

C11_Witness ==
    /\ \E x \in ProbeTriples :
         /\ ExpectedKind(x[1], x[2]) = "ServiceUnavailable"
         /\ x[3].seconds = 3
         /\ Caught(Error(ProbeMessage(x[1], x[2], x[3])))
    /\ retryCountdown = Null
    /\ errorMsg = Some(MsgUnavailable)

\* The text shown for a message of class kind.
ExpectedText(kind, message) ==
    CASE kind = "RateLimited"        -> MsgRateLimited
      [] kind = "ServiceUnavailable" -> MsgUnavailable
      [] kind = "AuthError"          -> MsgAuth
      [] kind = "NetworkError"       -> MsgNetwork
      [] OTHER                       -> message

\* C13: the class of a message is that of the first rule it matches in the
\* order RateLimited, ServiceUnavailable, AuthError, NetworkError, Unknown:
\* of two fragments in one message the one earlier in that order decides, in
\* either position; a message with "quota" and "503" is RateLimited.
C13_FirstMatchingRule ==
    \A x \in ProbeTriples :
      LET m == ProbeMessage(x[1], x[2], x[3])
      IN  Caught(Error(m)) =>
            /\ status = "error"
            /\ errorMsg = Some(ExpectedText(ExpectedKind(x[1], x[2]), m))

C13_Witness ==
    \E x \in ProbeTriples :
      /\ x[1].kind = "ServiceUnavailable"
      /\ x[2].kind = "RateLimited"
      /\ includes(x[1].text, Kw503)
      /\ includes(toLowerCase(x[2].text), KwQuota)
      /\ Caught(Error(ProbeMessage(x[1], x[2], x[3])))
      /\ errorMsg = Some(MsgRateLimited)

\* C14: a delay written "retry in <w><f>s" is extracted as the ceiling of
\* the number: w when the fraction is absent or zero, w + 1 otherwise (18.6
\* gives 19), and the countdown armed from it starts at that value.
C14_DelayIsCeiling ==
    \A w \in 0..MaxProbeWhole, f \in FractionTexts :
      Caught(Error(NumberProbe(w, f))) =>
        LET seconds == IF f.positive THEN w + 1 ELSE w
        IN  /\ errorMsg = Some(MsgRateLimited)
            /\ retryCountdown = IF seconds > 0 THEN Some(seconds) ELSE Null

C14_Witness ==
    /\ Caught(Error(NumberProbe(18, [text |-> <<".","6">>, positive |-> TRUE])))
    /\ retryCountdown = Some(19)

\* C15, as claimed: the catch block classifies every value it is handed: it
\* ends with a message set, the modal shown and status 'error'.
C15_ClassifierTotal ==
    runs[1].pc = "done" =>
      /\ status = "error"
      /\ errorMsg # Null
      /\ showErrorModal

\* The message of a rate-limit reply that asks to wait MaxRetrySeconds.
QuotaError == Error(QuotaRetryMessage(DigitText(MaxRetrySeconds)))

\* A run ends in this step on a rate-limit reply that carries a delay.
ArmingStep ==
    \E r \in Slots :
      /\ InFlight(r)
      /\ runs'[r].pc = "done"
      /\ runs'[r].raised = Some(QuotaError)

\* C12: at most one interval is scheduled in any state and none while the
\* countdown is Idle; a failure that arms the countdown while another one
\* is running replaces its value, and still one interval at most remains.
C12_SingleTimer ==
    /\ [](timers <= 1)
    /\ [](retryCountdown = Null => timers = 0)
    /\ [][ArmingStep => (retryCountdown' = Some(MaxRetrySeconds) /\ timers' <= 1)]_vars

C12_Witness ==
    /\ \E r \in Slots : Finished(r) /\ runs[r].raised = Some(QuotaError)
    /\ retryCountdown = Some(MaxRetrySeconds)
    /\ effectDep = Some(1)
    /\ timers = 1

\* C16, as claimed: a run that ends has set status 'success' or 'error', and
\* a run that ends in failure has passed the classifier and set the message
\* the modal shows; no run ends with status left at 'parsing' or 'analyzing'.
C16_RunEndsClassified ==
    \A r \in Slots :
      Finished(r) =>
        /\ status \in {"success", "error"}
        /\ runs[r].outcome = "error" => (errorMsg # Null /\ showErrorModal)

\* Position of a run in startAnalysis.
Stage(pc) ==
    CASE pc = "free"       -> 0
      [] pc = "extracting" -> 1
      [] pc = "calling"    -> 2
      [] OTHER             -> 3

\* A step of the countdown: an interval firing or the effect running.
TimerStep == Tick \/ CountdownEffect

\* C17: a run starts only in a step of the analyze button (status
\* 'parsing', extraction pending, no call made); a tick and the countdown
\* effect change no run; the step in which a run fails makes no call and
\* starts no run; a run never goes back to an earlier stage, and a call is
\* added only by the fallback loop, one at a time after a failed call.
C17_Step ==
    /\ \A r \in Slots :
         /\ (~InFlight(r) /\ InFlight(r)') =>
              /\ StartAnalysis
              /\ ~TimerStep
              /\ \A q \in Slots : ~(InFlight(q) /\ runs'[q].pc = "done")
              /\ runs'[r].pc = "extracting"
              /\ runs'[r].calls = <<>>
         /\ InFlight(r) =>
              /\ Stage(runs'[r].pc) >= Stage(runs[r].pc)
              /\ Len(runs'[r].calls) <= Len(runs[r].calls) + 1
              /\ (runs'[r].pc = "done" /\ runs'[r].outcome = "error") =>
                   Len(runs'[r].calls) = Len(runs[r].calls)
              /\ (Len(runs'[r].calls) > Len(runs[r].calls) /\ runs[r].calls # <<>>) =>
                   /\ runs'[r].calls[Len(runs[r].calls)].result = "failed"
                   /\ Len(runs'[r].calls) <= Len(MODELS_TO_TRY)
    /\ TimerStep => \A r \in Slots : InFlight(r) \/ InFlight(r)' => runs'[r] = runs[r]

C17_NoAutomaticRetry == [][C17_Step]_vars

C17_Witness ==
    /\ retryCountdown = Null
    /\ effectDep = Some(0)
    /\ status = "error"
    /\ \A r \in Slots : ~InFlight(r)

(***************************************************************************)
(* Extraction dispatch (ExtractorSpec).                                    *)
(***************************************************************************)
\* The extraction of the probe file stem.extension has settled.
Probed(stem, e, t) == Settled(1) /\ runs[1].file = Some(ProbeFile(stem, e, t))

\* The run went through readImageFile.
ImageHandled(r) ==
    IF runs[r].content # Null THEN runs[r].content[1].type = "image"
    ELSE runs[r].raised \in {Some(ReaderErrorEvent), Some(Error(MsgFailedReadImage))}

\* The run went through one of the text handlers or the default branch.
TextHandled(r) ==
    IF runs[r].content # Null THEN runs[r].content[1].type = "text"
    ELSE runs[r].raised # Some(Error(MsgFailedReadImage))

\* The run was rejected as unsupported, naming the extension, before any
\* remote call.
Unsupported(r, extension) ==
    /\ Finished(r)
    /\ runs[r].outcome = "error"
    /\ runs[r].raised = Some(Error(MsgUnsupportedPrefix \o extension))
    /\ runs[r].content = Null
    /\ ~runs[r].analyzed
    /\ runs[r].calls = <<>>

\* C18: a file whose extension is one of jpg, jpeg, png, webp, heic, heif or
\* whose declared MIME type starts with "image/" is extracted as an image,
\* also when its extension is txt, pdf or docx; the text handlers are reached
\* only when neither holds.
C18_ImageFamilyFirst ==
    \A stem \in ProbeStems, e \in ProbeExtensions, t \in ProbeTypes :
        Probed(stem, e, t) =>
            IF e.family = "image" \/ t.image THEN ImageHandled(1) ELSE TextHandled(1)

\* A file with a text extension and an image MIME type was read as an image.
C18_Witness ==
    \E stem \in ProbeStems, e \in ProbeExtensions, t \in ProbeTypes :
        /\ e.family \in {"txt", "pdf", "docx"}
        /\ t.image
        /\ Probed(stem, e, t)
        /\ runs[1].content # Null
        /\ runs[1].content[1].type = "image"
        /\ runs[1].analyzed

\* C19 as stated: a file whose extension is none of pdf, docx, txt, jpg, jpeg,
\* png, webp, heic, heif is rejected as unsupported whatever its declared MIME
\* type, and no remote call is made for it.
C19_UnsupportedWhateverType ==
    /\ \A stem \in ProbeStems, e \in ProbeExtensions, t \in ProbeTypes :
           (Probed(stem, e, t) /\ e.family = "none") => Unsupported(1, e.text)
    /\ \A t \in ProbeTypes :
           (Settled(1) /\ runs[1].file = Some(File(NameResume, t.text)))
               => Unsupported(1, NameResume)

\* C19: a file whose extension is none of the nine and whose declared MIME
\* type does not start with "image/" is rejected as unsupported before any
\* remote call; with a MIME type starting with "image/" it is read as an image.
C19_UnsupportedUnlessImageType ==
    /\ \A stem \in ProbeStems, e \in ProbeExtensions, t \in ProbeTypes :
           (Probed(stem, e, t) /\ e.family = "none") =>
               IF t.image THEN ImageHandled(1) ELSE Unsupported(1, e.text)
    /\ \A t \in ProbeTypes :
           (Settled(1) /\ runs[1].file = Some(File(NameResume, t.text))) =>
               IF t.image THEN ImageHandled(1) ELSE Unsupported(1, NameResume)

\* A file with an unknown extension and a declared non-image type was rejected.
C19_Witness ==
    \E stem \in ProbeStems, e \in ProbeExtensions, t \in ProbeTypes :
        /\ e.family = "none"
        /\ e.text # <<>>
        /\ ~t.image
        /\ t.text # <<>>
        /\ Probed(stem, e, t)
        /\ Unsupported(1, e.text)
        /\ status = "error"

(***************************************************************************)
(* Paginated extraction (PdfSpec).                                         *)
(***************************************************************************)
\* A page holding one text item.
OneItem(text) == [items |-> <<text>>, text |-> text]

\* The document with the page texts "A", "B", "C".
DocABC == <<OneItem(<<"A">>), OneItem(<<"B">>), OneItem(<<"C">>)>>

\* The texts of the pages in page order, each followed by one newline.
RECURSIVE PageTexts(_)
PageTexts(doc) ==
    IF doc = <<>> THEN <<>> ELSE doc[1].text \o <<"\n">> \o PageTexts(Tail(doc))

\* Number of newlines in a text.
Newlines(text) == Cardinality({k \in 1..Len(text) : text[k] = "\n"})

\* C20: readPdfFile asks for pages 1..P in increasing order, one at a time (a
\* page is asked for only after the text of every earlier page was appended),
\* and returns the page texts in page order, each the page's items joined by
\* one space and followed by one newline; pages "A", "B", "C" give
\* "A\nB\nC\n" and a document without pages gives the empty string.
C20_PagesInOrder ==
    /\ pdf.visited = [k \in 1..Len(pdf.visited) |-> k]
    /\ Len(pdf.visited) <= Len(pdf.doc)
    /\ pdf.pc = "page" => Newlines(pdf.fullText) = Len(pdf.visited) - 1
    /\ pdf.pc = "loop" => Newlines(pdf.fullText) = Len(pdf.visited)
    /\ pdf.pc = "returned" =>
           /\ Len(pdf.visited) = Len(pdf.doc)
           /\ pdf.fullText = PageTexts(pdf.doc)
           /\ pdf.doc = DocABC => pdf.fullText = <<"A", "\n", "B", "\n", "C", "\n">>
           /\ pdf.doc = <<>> => pdf.fullText = <<>>

\* The three-page document was read to its end.
C20_Witness ==
    /\ pdf.pc = "returned"
    /\ pdf.doc = DocABC
    /\ pdf.visited = <<1, 2, 3>>
    /\ pdf.fullText = <<"A", "\n", "B", "\n", "C", "\n">>

(***************************************************************************)
(* Image extraction (ExtractorSpec).                                       *)
(***************************************************************************)
\* The image run 1 extracted from a probe file.
ImageOf(declared) ==
    /\ Settled(1)
    /\ runs[1].file # Null
    /\ runs[1].file[1] \in ProbeFiles
    /\ runs[1].file[1].type = declared
    /\ runs[1].content # Null
    /\ runs[1].content[1].type = "image"

\* MIME type and payload of the images a reader result can give for a file
\* without a declared type, read off by hand: "data:image/png;base64,QUJD",
\* "data:application/octet-stream;base64,QUJD", "data:;base64,QUJD", "data:".
UndeclaredImages ==
    { [mimeType |-> <<"i","m","a","g","e","/","p","n","g">>, data |-> Some(<<"Q","U","J","D">>)],
      [mimeType |-> <<"a","p","p","l","i","c","a","t","i","o","n","/","o","c","t","e","t","-",
                      "s","t","r","e","a","m">>, data |-> Some(<<"Q","U","J","D">>)],
      [mimeType |-> <<"i","m","a","g","e","/","j","p","e","g">>, data |-> Some(<<"Q","U","J","D">>)],
      [mimeType |-> <<"i","m","a","g","e","/","j","p","e","g">>, data |-> Null] }

\* C21: the MIME type of an extracted image is the declared type of the file
\* when that is not empty, else the type captured from the prefix of the data
\* URL when it holds one, else image/jpeg; the payload is what follows the
\* prefix and nothing of the prefix.
C21_ImageMimeAndPayload ==
    /\ \A t \in ProbeTypes :
           (t.text # <<>> /\ ImageOf(t.text)) =>
               /\ runs[1].content[1].mimeType = t.text
               /\ runs[1].content[1].data \in {Some(<<"Q","U","J","D">>), Null}
    /\ ImageOf(<<>>) =>
           [mimeType |-> runs[1].content[1].mimeType, data |-> runs[1].content[1].data]
               \in UndeclaredImages

\* An image without a declared type got the type of the prefix.
C21_Witness ==
    /\ ImageOf(<<>>)
    /\ runs[1].content[1].mimeType = <<"i","m","a","g","e","/","p","n","g">>
    /\ runs[1].content[1].data = Some(<<"Q","U","J","D">>)
    /\ runs[1].analyzed

(***************************************************************************)
(* The working message of the catch block (ClassifierSpec).                *)
(***************************************************************************)
\* The message the catch block is to work on for the reply BothProbe(a, d, b):
\* its text, its class and the seconds it announces.  The reply as a whole
\* holds "429" and no delay outside its two messages.
Working(a, d, b) ==
    IF a.text \o d.text # <<>>
    THEN [text |-> a.text \o d.text, kind |-> a.kind, seconds |-> d.seconds]
    ELSE IF b.text # <<>>
    THEN [text |-> b.text, kind |-> b.kind, seconds |-> b.seconds]
    ELSE [text |-> BothProbe(a, d, b), kind |-> "RateLimited", seconds |-> 0]

\* The catch block ended as it is to end for a working message w.
EndedOn(w) ==
    /\ status = "error"
    /\ errorMsg = Some(ExpectedText(w.kind, w.text))
    /\ retryCountdown = IF w.kind = "RateLimited" /\ w.seconds > 0 THEN Some(w.seconds) ELSE Null

\* C22: for a raw message that starts with "{" and parses as JSON, the class
\* and the delay are those of error.message when it is not empty, else of
\* message when it is not empty, and nothing of the surrounding text counts;
\* when neither is present, or the text does not parse, they are those of the
\* raw message as a whole.
C22_InnerMessageDecides ==
    /\ \A a \in KindFragments, d \in InnerDelays, b \in OuterTexts :
           Caught(Error(BothProbe(a, d, b))) => EndedOn(Working(a, d, b))
    /\ \A a \in KindFragments, d \in InnerDelays :
           Caught(Error(CutProbe(a, d))) =>
               EndedOn([text |-> CutProbe(a, d), kind |-> "RateLimited", seconds |-> d.seconds])

\* A reply with code 429 around the message "503 Service retry in 3s" and an
\* outer message about the quota was classified as unavailable.
C22_Witness ==
    \E a \in KindFragments, d \in InnerDelays, b \in OuterTexts :
        /\ a.text = <<"5","0","3"," ","S","e","r","v","i","c","e">>
        /\ d.seconds = 3
        /\ b.kind = "RateLimited"
        /\ Caught(Error(BothProbe(a, d, b)))
        /\ errorMsg = Some(MsgUnavailable)
        /\ retryCountdown = Null

(***************************************************************************)
(* The message shown (ClassifierSpec).                                     *)
(***************************************************************************)
\* The first 500 characters of Filler(n), or all of them when there are fewer.
Shown(n) == [i \in 1..(IF n < 500 THEN n ELSE 500) |-> "x"]

\* The four texts that do not depend on the failure.
FixedTexts == {MsgRateLimited, MsgUnavailable, MsgAuth, MsgNetwork}

\* C23: for a failure classified Unknown the message shown is the first
\* min(500, length) characters of the message after unwrapping, unaltered;
\* for the four other classes it is the fixed text of the class and holds
\* nothing of the raw message.
C23_UnknownShownVerbatim ==
    /\ \A n \in FillerLengths :
           /\ Caught(Error(Filler(n))) => errorMsg = Some(Shown(n))
           /\ Caught(Error(JsonErrorMessageOpen \o Filler(n) \o JsonErrorMessageClose))
                  => errorMsg = Some(Shown(n))
           /\ Caught(Error(Filler(n) \o <<" ">> \o KwQuota)) => errorMsg = Some(MsgRateLimited)
    /\ \A x \in ProbeTriples :
           Caught(Error(ProbeMessage(x[1], x[2], x[3]))) =>
               IF ExpectedKind(x[1], x[2]) = "Unknown"
               THEN errorMsg = Some(ProbeMessage(x[1], x[2], x[3]))
               ELSE errorMsg # Null /\ errorMsg[1] \in FixedTexts

\* A message of 507 characters was cut to its first 500.
C23_Witness ==
    /\ Caught(Error(Filler(507)))
    /\ errorMsg # Null
    /\ Len(errorMsg[1]) = 500
    /\ errorMsg[1][500] = "x"

(***************************************************************************)
(* The countdown and the error on display (Spec).                          *)
(***************************************************************************)
\* The modal shows its "You can retry in Ns" line.
RetryLineShown == ModalShown /\ retryCountdown # Null /\ retryCountdown[1] > 0

\* The effect runs at zero while an error other than the rate-limit error
\* is on display.
ZeroOnOtherError ==
    /\ CountdownEffect
    /\ retryCountdown = Some(0)
    /\ ModalShown
    /\ errorMsg # Some(MsgRateLimited)

\* C24, as claimed: the retry line is shown on no error but the rate-limit
\* error that armed the countdown, and an error other than that one which is
\* on display when the countdown reaches zero stays on display.
C24_OnlyArmingErrorDismissed ==
    /\ [](RetryLineShown => errorMsg = Some(MsgRateLimited))
    /\ [][ZeroOnOtherError => showErrorModal']_vars

(***************************************************************************)
(* Runs abandoned by resetAnalysis (Spec).                                 *)
(***************************************************************************)
\* The run of slot r was started on a file that is no longer the selected
\* one: resetAnalysis was invoked while it was in flight.
Abandoned(r) == InFlight(r) /\ runs[r].file # selectedFile

\* An abandoned run ends in this step.
LateCompletion == \E r \in Slots : Abandoned(r) /\ runs'[r].pc = "done"

\* C25, as claimed: the completion of a run abandoned by resetAnalysis leaves
\* status, result and the error modal as they were, and whenever status is
\* 'success' a file is selected, the one the result was produced from.
C25_LateCompletionInvisible ==
    /\ [](status = "success" => selectedFile # Null)
    /\ [][LateCompletion => UNCHANGED <<status, result, showErrorModal, errorMsg>>]_vars

\* C26, as claimed: at the end of the failure handler of a failing run an
\* error is visible: showErrorModal is true and errorMsg is a string that is
\* not empty.
C26_FailureVisible ==
    \A r \in Slots :
        (Finished(r) /\ runs[r].outcome = "error") =>
            /\ showErrorModal
            /\ errorMsg # Null
            /\ errorMsg[1] # <<>>

\* C27, as claimed: a failure raised before any remote call (unsupported file
\* type, backend not loaded, text too short) is classified by none of the
\* four classes and arms no countdown, whatever the name of the file: the
\* user sees the message of the failure itself.
C27_LocalFailureKeepsMessage ==
    \A r \in Slots :
        (/\ Finished(r)
         /\ runs[r].outcome = "error"
         /\ ~runs[r].analyzed
         /\ runs[r].raised # Null
         /\ runs[r].raised[1].hasMessage) =>
            /\ errorMsg = Some(runs[r].raised[1].message)
            /\ retryCountdown = Null

(***************************************************************************)
(* Status and result (Spec).                                               *)
(***************************************************************************)
\* C28: in every reachable state, with runs started, abandoned and completed
\* in any order, status 'success' comes with a result that is present and
\* does not satisfy the sentinel condition.
C28_SuccessHasResult ==
    status = "success" => (result # Null /\ ~Sentinel(result[1]))

\* Status 'success' with a result of score 0 that is no sentinel, while a run
\* started later is still in flight.
C28_Witness ==
    /\ status = "success"
    /\ result # Null
    /\ result[1].overallScore = 0
    /\ \E r \in Slots : InFlight(r)

\* The moves of status along a run, and the return to 'idle' by
\* resetAnalysis or handleFileSelection.
StatusMoves ==
    { <<"idle", "parsing">>, <<"error", "parsing">>, <<"parsing", "analyzing">>,
      <<"analyzing", "success">>, <<"parsing", "error">>, <<"analyzing", "error">>,
      <<"error", "idle">>, <<"success", "idle">>, <<"parsing", "idle">>,
      <<"analyzing", "idle">> }

\* A generateContent call is issued in this step.
CallIssued ==
    \E r \in Slots : runs'[r].pc = "calling" /\ Len(runs'[r].calls) > Len(runs[r].calls)

\* C29, as claimed: status moves only along idle/error -> parsing ->
\* analyzing -> success or from parsing or analyzing to error, 'success' is
\* entered only from 'analyzing', a remote call is issued only while status
\* is 'analyzing', and 'validating' is never reached.
C29_StatusMovesAlongRun ==
    /\ [](status # "validating")
    /\ [][(status' # status => <<status, status'>> \in StatusMoves)
            /\ (CallIssued => status' = "analyzing")]_vars

\* retryCountdown does not increase in this step.
NotRaised ==
    \/ retryCountdown' = retryCountdown
    \/ retryCountdown' = Null
    \/ /\ retryCountdown # Null
       /\ retryCountdown' # Null
       /\ retryCountdown'[1] < retryCountdown[1]

\* What a firing of the interval leaves: a positive value less 1, and 0 at 0.
Ticked ==
    /\ retryCountdown # Null
    /\ retryCountdown' = Some(IF retryCountdown[1] > 0 THEN retryCountdown[1] - 1 ELSE 0)

\* C30: retryCountdown is null or an integer >= 0; a step in which no run
\* ends never raises it; a firing of the interval lowers a positive value by
\* exactly 1 and leaves 0 at 0; and 0 is transient: whenever the value is 0
\* the effect is due, and its run sets the value to null.
C30_CountdownRange ==
    /\ [](retryCountdown = Null \/ retryCountdown[1] \in Nat)
    /\ [](retryCountdown = Some(0) => EffectDue)
    /\ [][/\ ~RunEnds => NotRaised
          /\ Tick => Ticked
          /\ (CountdownEffect /\ retryCountdown = Some(0)) => retryCountdown' = Null]_vars

\* The interval has just lowered the countdown from 1 to 0 and the effect
\* has not run yet.
C30_Witness ==
    /\ retryCountdown = Some(0)
    /\ effectDep = Some(1)
    /\ timers = 1

====
